---- MODULE Spec2Model ----
(***************************************************************************)
(* Model of the BoxNote to HTML converter                                  *)
(* (src/Separations/boxnote_to_html_parser/html_parser.py).                *)
(*                                                                         *)
(* Python strings are modelled as sequences of lexemes (TLA+ strings that  *)
(* are never split): ''.join is the concatenation of the sequences, the    *)
(* empty string is << >>, and str.replace works on lexeme subsequences.    *)
(* JSON values are records of one shape, [kind, items]; a JSON object that *)
(* is a node is the record [keys, type, text, marks, attrs, content] where *)
(* keys is the set of keys the object really has.                          *)
(***************************************************************************)
EXTENDS Integers, Sequences, FiniteSets, TLC

\* ------------------------------------------------------------------ bounds
\* Largest number of node objects in the document tree of a payload.
MaxNodes == 3

\* ------------------------------------------------------- Python values
\* The value None, where a string (a lexeme sequence) is expected.
None == <<"None:NoneType">>

\* Python truthiness of a str-or-None value.
Truthy(s) == s # None /\ s # << >>

\* No exception is pending.
NoExc == "none"

\* ------------------------------------------------------------ JSON values
JNull == [kind |-> "null", items |-> << >>]
JList(nodes) == [kind |-> "list", items |-> nodes]
JDict(node) == [kind |-> "dict", items |-> <<node>>]
\* A value that is neither a list nor an object (a number, a string).
JScalar == [kind |-> "scalar", items |-> << >>]

NoAttrs == [keys |-> {}, checked |-> FALSE, src |-> << >>]

\* A node object; ks is the set of keys it has, the other fields are the
\* values of the keys it has (and a fixed filler for the keys it lacks).
MkNode(ks, type, text, marks, attrs, content) ==
    [keys |-> ks, type |-> type, text |-> text, marks |-> marks,
     attrs |-> attrs, content |-> content]

\* A mark: an object (is_dict) with optional 'type' and 'attrs.alignment',
\* or a value that is no object.
MkMark(type, alignment) ==
    [is_dict |-> TRUE, type |-> type, has_attrs |-> TRUE, alignment |-> alignment]
BadMark == [is_dict |-> FALSE, type |-> "", has_attrs |-> FALSE, alignment |-> << >>]

\* `not content`: None, an empty list and an empty dict are falsy.
IsFalsy(content) ==
    \/ content.kind = "null"
    \/ content.kind = "list" /\ content.items = << >>
    \/ content.kind = "dict" /\ content.items[1].keys = {}

\* GetContent taking nothing but a list for the children.
GetContent_ListOnly(node) ==
    IF "content" \in node.keys /\ node.content.kind = "list" THEN node.content
    ELSE JList(<< >>)

\* content.get('content', []) of a node.
GetContent(node) == IF "content" \in node.keys THEN node.content ELSE JList(<< >>)

\* content.get('attrs', {}) of a node.
GetAttrs(node) == IF "attrs" \in node.keys THEN node.attrs ELSE NoAttrs

\* content.get('marks', []) of a node.
GetMarks(node) == IF "marks" \in node.keys THEN node.marks ELSE << >>

\* ------------------------------------------------- html_mapper (Tag Catalog)
SuppressingTypes == {"list_item", "table_cell", "call_out_box"}

PassthroughTypes ==
    {"strong", "em", "underline", "strikethrough", "ordered_list", "bullet_list",
     "blockquote", "code_block", "check_list", "table", "table_row", "heading",
     "link", "font_size", "font_color", "horizontal_rule"}

get_base_style == <<"<style type=\"text/css\">base</style>">>

ParagraphOpen(alignment) == <<"<p style=\"text-align: ">> \o alignment \o <<"\">">>

CheckListItemOpen(checked, x) ==
    <<"<li class=\"check-list-item ">> \o checked \o <<"\">[">> \o x \o <<"]">>

\* html_mapper.get_tag_open(tag, **kwargs); kw is the keyword record in use.
get_tag_open(tag, kw) ==
    CASE tag = "paragraph" -> ParagraphOpen(kw.alignment)
      [] tag = "text" -> << >>
      [] tag = "check_list_item" -> CheckListItemOpen(kw.checked, kw.x)
      [] OTHER -> <<"<" \o tag \o ">">>

\* html_mapper.get_tag_close(tag, **kwargs).
get_tag_close(tag) ==
    CASE tag = "paragraph" -> <<"</p>">>
      [] tag = "text" -> << >>
      [] OTHER -> <<"</" \o tag \o ">">>

\* html_mapper.handle_text_marks(marks, text) with no marks: the bare text.
handle_text_marks(marks, text) == text

\* What the image resolver does with an image reference.
ResolverRaises(attrs) == attrs.src = <<"boom.png">>
ResolverReturnsNone(attrs) == attrs.src = <<"gone.png">>

\* html_mapper.handle_image(attrs, title, workdir, token, user), when it returns.
handle_image(attrs, title, workdir, tok, usr) ==
    IF ResolverReturnsNone(attrs) THEN None
    ELSE <<"<img src=\"">> \o attrs.src \o <<"\">">>

\* ------------------------------------------------------------ parse_content
\* The traversal state: the shared list `contents`, the calls made to the
\* image resolver so far, and the exception being raised (NoExc if none).
Append1(st, frag) == [st EXCEPT !.contents = Append(@, frag)]
Raise(st, e) == [st EXCEPT !.exc = e]

\* ScanMarks leaving the loop at the first alignment mark.
RECURSIVE ScanMarks_FirstWins(_, _, _)
ScanMarks_FirstWins(marks, i, alignment) ==
    IF i > Len(marks) THEN [alignment |-> alignment, exc |-> NoExc]
    ELSE IF ~marks[i].is_dict THEN [alignment |-> alignment, exc |-> "AttributeError"]
    ELSE IF marks[i].type = "alignment"
         THEN [alignment |-> IF marks[i].has_attrs THEN marks[i].alignment ELSE << >>,
               exc |-> NoExc]
         ELSE ScanMarks_FirstWins(marks, i + 1, alignment)

\* The loop over a paragraph's marks (lines 89-93): the alignment after
\* marks[i..], or the exception mark.get raises on a mark that is no object.
RECURSIVE ScanMarks(_, _, _)
ScanMarks(marks, i, alignment) ==
    IF i > Len(marks) THEN [alignment |-> alignment, exc |-> NoExc]
    ELSE IF ~marks[i].is_dict THEN [alignment |-> alignment, exc |-> "AttributeError"]
    ELSE IF marks[i].type = "alignment"
         THEN ScanMarks(marks, i + 1,
                        IF marks[i].has_attrs THEN marks[i].alignment ELSE << >>)
         ELSE ScanMarks(marks, i + 1, alignment)

\* CheckListArgs taking every item for a checked one.
CheckListArgs_AlwaysChecked(attrs) == [checked |-> <<"checked">>, x |-> <<"X">>]

\* The keyword arguments of the check_list_item open tag (line 104).
CheckListArgs(attrs) ==
    [checked |-> IF attrs.checked THEN <<"checked">> ELSE << >>,
     x |-> IF attrs.checked THEN <<"X">> ELSE <<"  ">>]

\* ChildIgnoreParagraph handing on the flag the node itself received.
ChildIgnoreParagraph_Inherit(type_tag, ignore_paragraph) == ignore_paragraph

\* The suppress flag a container hands to its children: forced True by the
\* four container types (lines 106, 110), the default False otherwise
\* (lines 95, 98, 117 pass no flag).
ChildIgnoreParagraph(type_tag, ignore_paragraph) ==
    type_tag = "check_list_item" \/ type_tag \in SuppressingTypes

\* Branch with a blind recursion: a type outside the catalog is rendered like
\* the container types.
Branch_UnknownAsContainer(type_tag) ==
    CASE type_tag = "paragraph" -> "paragraph"
      [] type_tag = "text" -> "text"
      [] type_tag = "check_list_item" -> "check_list_item"
      [] type_tag = "image" -> "image"
      [] OTHER -> "container"

\* The if/elif chain of lines 87-115: the branch that handles a type; the
\* branches of lines 108 and 114 differ only in the flag for the children.
Branch(type_tag) ==
    CASE type_tag = "paragraph" -> "paragraph"
      [] type_tag = "text" -> "text"
      [] type_tag = "check_list_item" -> "check_list_item"
      [] type_tag \in SuppressingTypes -> "container"
      [] type_tag = "image" -> "image"
      [] type_tag \in PassthroughTypes -> "container"
      [] OTHER -> "ignored"

RECURSIVE parse_content(_, _, _, _, _, _)
RECURSIVE parse_items(_, _, _, _, _, _, _)
RECURSIVE parse_node(_, _, _, _, _, _)

\* Wrapped without the append of the close tag.
Wrapped_NoClose(open, close, node, st, title, workdir, g) ==
    parse_content(GetContent(node), Append1(st, open), title, workdir,
                  ChildIgnoreParagraph(node.type, FALSE), g)

\* open tag, children, close tag (lines 94-96, 105-107, 109-111, 116-118);
\* nothing is appended once an exception propagates.
Wrapped(open, close, node, st, title, workdir, g) ==
    LET inner == parse_content(GetContent(node), Append1(st, open), title, workdir,
                               ChildIgnoreParagraph(node.type, FALSE), g)
    IN IF inner.exc # NoExc THEN inner ELSE Append1(inner, close)

\* ImageBranch going on into the content of the image node.
ImageBranch_Traversing(node, st, title, workdir, g) ==
    LET attrs == GetAttrs(node)
        called == [st EXCEPT !.calls = Append(@, [attrs |-> attrs, title |-> title,
                                                  token |-> g.token, user |-> g.user])]
    IN IF ResolverRaises(attrs) THEN Raise(called, "ImageResolutionFailure")
       ELSE parse_content(GetContent(node),
                          Append1(called, handle_image(attrs, title, workdir, g.token, g.user)),
                          title, workdir, FALSE, g)

\* The image branch (line 113): one resolver call with the module globals.
ImageBranch(node, st, title, workdir, g) ==
    LET attrs == GetAttrs(node)
        called == [st EXCEPT !.calls = Append(@, [attrs |-> attrs, title |-> title,
                                                  token |-> g.token, user |-> g.user])]
    IN IF ResolverRaises(attrs) THEN Raise(called, "ImageResolutionFailure")
       ELSE Append1(called, handle_image(attrs, title, workdir, g.token, g.user))

\* Lines 82-118: the dispatch on one non-empty node object.
parse_node(node, st, title, workdir, ignore_paragraph, g) ==
    IF "type" \notin node.keys THEN Raise(st, "ValueError: no type field")
    ELSE LET type_tag == node.type
             branch == Branch(type_tag) IN
      CASE branch = "paragraph" ->
             IF ~ignore_paragraph
             THEN LET scan == ScanMarks(GetMarks(node), 1, <<"left">>)
                  IN IF scan.exc # NoExc THEN Raise(st, scan.exc)
                     ELSE Wrapped(get_tag_open("paragraph", [alignment |-> scan.alignment]),
                                  get_tag_close("paragraph"), node, st, title, workdir, g)
             ELSE parse_content(GetContent(node), st, title, workdir,
                                ChildIgnoreParagraph(type_tag, ignore_paragraph), g)
        [] branch = "text" ->
             Append1(Append1(Append1(st, get_tag_open("text", << >>)),
                             handle_text_marks(GetMarks(node),
                                               IF "text" \in node.keys THEN node.text ELSE << >>)),
                     get_tag_close("text"))
        [] branch = "check_list_item" ->
             IF "attrs" \notin node.keys \/ "checked" \notin node.attrs.keys
             THEN Raise(st, "KeyError")
             ELSE Wrapped(get_tag_open("check_list_item", CheckListArgs(node.attrs)),
                          get_tag_close("check_list_item"), node, st, title, workdir, g)
        [] branch = "image" -> ImageBranch(node, st, title, workdir, g)
        [] branch = "container" ->
             Wrapped(get_tag_open(type_tag, GetAttrs(node)), get_tag_close(type_tag),
                     node, st, title, workdir, g)
        [] OTHER -> st

\* parse_items walking the list from its end.
parse_items_Reversed(items, i, st, title, workdir, ignore_paragraph, g) ==
    IF i > Len(items) \/ st.exc # NoExc THEN st
    ELSE parse_items(items, i + 1,
                     parse_content(JDict(items[Len(items) - i + 1]), st, title, workdir,
                                   ignore_paragraph, g),
                     title, workdir, ignore_paragraph, g)

\* The for loop of lines 75-76 from item i on; an exception ends it.
parse_items(items, i, st, title, workdir, ignore_paragraph, g) ==
    IF i > Len(items) \/ st.exc # NoExc THEN st
    ELSE parse_items(items, i + 1,
                     parse_content(JDict(items[i]), st, title, workdir, ignore_paragraph, g),
                     title, workdir, ignore_paragraph, g)

\* parse_content(content, contents, title, workdir, ignore_paragraph), lines 62-118.
parse_content(content, st, title, workdir, ignore_paragraph, g) ==
    IF IsFalsy(content) THEN st
    ELSE IF content.kind = "list"
         THEN parse_items(content.items, 1, st, title, workdir, ignore_paragraph, g)
    ELSE IF content.kind # "dict" THEN st
    ELSE parse_node(content.items[1], st, title, workdir, ignore_paragraph, g)

\* -------------------------------------------------------------------- parse
\* ''.join(contents) from element i on.
RECURSIVE Join(_, _)
Join(contents, i) == IF i > Len(contents) THEN << >> ELSE contents[i] \o Join(contents, i + 1)

\* str.replace(s, pat, ''): the non-overlapping occurrences of pat, found
\* left to right in one pass from position i on, are dropped.
RECURSIVE StrRemove(_, _, _)
StrRemove(s, pat, i) ==
    IF i + Len(pat) - 1 > Len(s) THEN SubSeq(s, i, Len(s))
    ELSE IF SubSeq(s, i, i + Len(pat) - 1) = pat THEN StrRemove(s, pat, i + Len(pat))
    ELSE <<s[i]>> \o StrRemove(s, pat, i + 1)

\* The literal of line 58, '<p style="text-align: left"></p>'.
EmptyParagraph == <<"<p style=\"text-align: ", "left", "\">", "</p>">>

\* The initial list of line 51.
Skeleton(title) ==
    << <<"<!DOCTYPE html>">>, <<"<html>">>, get_base_style, <<"<head>">>,
       <<"<meta charset=\"UTF-8\">">>, <<"<title>">> \o title \o <<"</title>">>,
       <<"</head>">>, <<"<body>">> >>

\* Validate without the check of lines 47-49.
Validate_NoContentCheck(boxnote_content) ==
    IF ~boxnote_content.parseable THEN "JSONDecodeError"
    ELSE IF boxnote_content.root_kind # "dict" THEN "TypeError"
    ELSE IF "doc" \notin boxnote_content.root_keys THEN "ValueError: no doc field"
    ELSE NoExc

\* Lines 37-49: the exception the document-level checks raise, or NoExc.
Validate(boxnote_content) ==
    IF ~boxnote_content.parseable THEN "JSONDecodeError"
    ELSE IF boxnote_content.root_kind # "dict" THEN "TypeError"
    ELSE IF "doc" \notin boxnote_content.root_keys THEN "ValueError: no doc field"
    ELSE IF boxnote_content.doc_kind # "dict" THEN "TypeError"
    ELSE IF "content" \notin boxnote_content.doc_keys THEN "ValueError: no content field"
    ELSE NoExc

\* Assemble closing the document before the body is complete: '</body>' is
\* put in front of the last fragment instead of after it.
Assemble_CloseTooEarly(contents) ==
    StrRemove(Join(SelectSeq(SubSeq(contents, 1, Len(contents) - 1), LAMBDA x : x # None)
                     \o << <<"</body>">> >>
                     \o SelectSeq(SubSeq(contents, Len(contents), Len(contents)),
                                  LAMBDA x : x # None)
                     \o << <<"</html>">> >>, 1),
              EmptyParagraph, 1)

\* Lines 55-59: filter None, close the body, join, remove empty paragraphs.
Assemble(contents) ==
    StrRemove(Join(SelectSeq(contents, LAMBDA x : x # None)
                     \o << <<"</body>">>, <<"</html>">> >>, 1),
              EmptyParagraph, 1)

\* parse(boxnote_content, title, workdir, ...) after the globals are set to g:
\* the exception it raises or the string it returns, with the list `contents`
\* as parse_content left it and the resolver calls made.
parse(boxnote_content, title, workdir, g) ==
    LET v == Validate(boxnote_content) IN
    IF v # NoExc
    THEN [exc |-> v, result |-> None, contents |-> << >>, calls |-> << >>]
    ELSE LET st == parse_content(boxnote_content.content,
                                 [contents |-> Skeleton(title), calls |-> << >>, exc |-> NoExc],
                                 title, workdir, FALSE, g)
         IN [exc |-> st.exc,
             result |-> IF st.exc = NoExc THEN Assemble(st.contents) ELSE None,
             contents |-> st.contents, calls |-> st.calls]

\* Lines 33-36: the module globals after the call's assignments.
SetGlobals(tok, usr, access_token, user_id) ==
    [token |-> IF Truthy(access_token) THEN access_token ELSE tok,
     user |-> IF Truthy(user_id) THEN user_id ELSE usr]

\* ---------------------------------------------------------------- documents
\* The node objects a document is built from, without their 'content'.
Label(ks, type, text, marks, attrs) ==
    [keys |-> ks, type |-> type, text |-> text, marks |-> marks, attrs |-> attrs]

EmptyObject == Label({}, "", << >>, << >>, NoAttrs)

UntypedNode == Label({"text"}, "", <<"Hello">>, << >>, NoAttrs)
Paragraph == Label({"type"}, "paragraph", << >>, << >>, NoAttrs)
CenteredParagraph ==
    Label({"type", "marks"}, "paragraph", << >>, <<MkMark("alignment", <<"center">>)>>, NoAttrs)
TextNode == Label({"type", "text"}, "text", <<"Hello">>, << >>, NoAttrs)
CheckedItem ==
    Label({"type", "attrs"}, "check_list_item", << >>, << >>,
          [keys |-> {"checked"}, checked |-> TRUE, src |-> << >>])
CheckListItemNoAttrs == Label({"type"}, "check_list_item", << >>, << >>, NoAttrs)
ListItem == Label({"type"}, "list_item", << >>, << >>, NoAttrs)
ImageNode ==
    Label({"type", "attrs"}, "image", << >>, << >>,
          [keys |-> {"src"}, checked |-> FALSE, src |-> <<"ok.png">>])
FailingImage ==
    Label({"type", "attrs"}, "image", << >>, << >>,
          [keys |-> {"src"}, checked |-> FALSE, src |-> <<"boom.png">>])
Strong == Label({"type"}, "strong", << >>, << >>, NoAttrs)
UnknownNode == Label({"type"}, "unknown_future_type", << >>, << >>, NoAttrs)

Labels ==
    { EmptyObject, UntypedNode, Paragraph, CenteredParagraph, TextNode, CheckedItem,
      CheckListItemNoAttrs, ListItem, ImageNode, FailingImage, Strong, UnknownNode }

\* The labels whose children parse_content never visits: a node without
\* 'type' (line 84 raises), a text, image or unknown-type node (no recursive
\* call), a check_list_item without attrs (line 104 raises).
OpaqueLabels ==
    {l \in Labels :
        \/ "type" \notin l.keys
        \/ l.type \notin {"paragraph", "check_list_item"} \cup SuppressingTypes
                            \cup PassthroughTypes
        \/ l.type = "check_list_item" /\ "attrs" \notin l.keys}

\* What a subtree that is never visited is filled with: a node that would
\* raise, one that would emit tags, one that would call the resolver.
ProbeLabels == {UntypedNode, Paragraph, ImageNode}

\* The node with label l and the children `kids`: a node with children has a
\* 'content' list, a node without has no 'content' key.
NodeOf(l, kids) ==
    IF kids = << >> THEN MkNode(l.keys, l.type, l.text, l.marks, l.attrs, JNull)
    ELSE MkNode(l.keys \cup {"content"}, l.type, l.text, l.marks, l.attrs, JList(kids))

\* A tree shape of n nodes: the depth of each node in document order
\* (pre-order); a node is at most one level below the node before it.
Shapes(n) ==
    {d \in [1..n -> 0..(n - 1)] :
        \A i \in 1..n : d[i] <= (IF i = 1 THEN 0 ELSE d[i - 1] + 1)}

\* The positions of the ancestors of the node at position i.
Ancestors(d, i) ==
    {j \in 1..(i - 1) : d[j] < d[i] /\ \A k \in (j + 1)..i : d[k] > d[j]}

\* Below a node with an opaque label there are probe labels only.
WellPlaced(d, lab) ==
    \A i \in DOMAIN lab :
        (\E j \in Ancestors(d, i) : lab[j] \in OpaqueLabels) => lab[i] \in ProbeLabels

\* The last position of the subtree that starts at position lo.
RECURSIVE SubtreeEnd(_, _, _)
SubtreeEnd(d, lo, j) ==
    IF j + 1 > Len(d) \/ d[j + 1] <= d[lo] THEN j ELSE SubtreeEnd(d, lo, j + 1)

\* The node sequence that shape d and labels lab describe in positions lo..hi.
RECURSIVE Forest(_, _, _, _)
Forest(d, lab, lo, hi) ==
    IF lo > hi THEN << >>
    ELSE LET e == SubtreeEnd(d, lo, lo)
         IN <<NodeOf(lab[lo], Forest(d, lab, lo + 1, e))>> \o Forest(d, lab, e + 1, hi)

Payload(parseable, root_kind, root_keys, doc_kind, doc_keys, content) ==
    [parseable |-> parseable, root_kind |-> root_kind, root_keys |-> root_keys,
     doc_kind |-> doc_kind, doc_keys |-> doc_keys, content |-> content]

\* {"doc": {"content": [...]}} around a node sequence.
Document(nodes) == Payload(TRUE, "dict", {"doc"}, "dict", {"content"}, JList(nodes))

\* Not JSON; a JSON number; {}; {"doc": null}; {"doc": {}}.
Malformed ==
    { Payload(FALSE, "scalar", {}, "null", {}, JNull),
      Payload(TRUE, "scalar", {}, "null", {}, JNull),
      Payload(TRUE, "dict", {}, "null", {}, JNull),
      Payload(TRUE, "dict", {"doc"}, "null", {}, JNull),
      Payload(TRUE, "dict", {"doc"}, "dict", {}, JNull) }

\* The payloads of a run: a malformed one, or a document of at most MaxNodes
\* nodes of every shape and every well-placed labelling.
IsPayload(p) ==
    \/ p \in Malformed
    \/ \E n \in 0..MaxNodes : \E d \in Shapes(n) : \E lab \in [1..n -> Labels] :
          /\ WellPlaced(d, lab)
          /\ p = Document(Forest(d, lab, 1, n))


\* ------------------------------------------ replace_email_template_placeholders
\* (src/Separations/helpers/regex.py, src/Separations/models.py)
\* A text is a sequence of lexemes: the characters '$', '{' and '}' one by
\* one, and words (runs of other characters) that are never split.
\* Largest number of pieces a template is put together from.
MaxPieces == 4

\* str.lower() of a lexeme.
Lower(lexeme) ==
    CASE lexeme = "EMAIL" -> "email"
      [] lexeme = "Email" -> "email"
      [] lexeme = "Name" -> "name"
      [] lexeme = "Awaiting Email" -> "awaiting email"
      [] OTHER -> lexeme

\* The characters of a lexeme sequence as one string, in lower case.
RECURSIVE LowerString(_, _)
LowerString(s, i) == IF i > Len(s) THEN "" ELSE Lower(s[i]) \o LowerString(s, i + 1)

\* An attribute value: a str, a date or None; str(v) of it.
StrValue(chars) == [kind |-> "str", chars |-> chars]
DateValue(iso) == [kind |-> "date", chars |-> <<iso>>]
NoneValue == [kind |-> "none", chars |-> << >>]
Str(v) == IF v.kind = "none" THEN <<"None">> ELSE v.chars

\* SmartsheetContact(email_status, email, last_day_date, **kwargs), models.py
\* lines 23-29: vars(contact) as the sequence of its (name, value) items, the
\* three named attributes first, then the keyword arguments in their order.
Attr(name, value) == [name |-> name, value |-> value]
SmartsheetContact(email_status, email, last_day_date, kwargs) ==
    <<Attr("email_status", email_status), Attr("email", email),
      Attr("last_day_date", last_day_date)>> \o kwargs

\* The position of the first '}' of s at or after position k, 0 if none.
RECURSIVE FirstClose(_, _)
FirstClose(s, k) ==
    IF k > Len(s) THEN 0 ELSE IF s[k] = "}" THEN k ELSE FirstClose(s, k + 1)

\* The pattern \$\{([^}]+)\} of line 12 tried at position i: the position of
\* the '}' that ends the match, 0 if there is no match at i.
PatternMatchEnd(s, i) ==
    IF i + 1 <= Len(s) /\ s[i] = "$" /\ s[i + 1] = "{"
    THEN LET j == FirstClose(s, i + 2) IN IF j >= i + 3 THEN j ELSE 0
    ELSE 0

\* replacer comparing the names as they are written.
RECURSIVE replacer_CaseSensitive(_, _, _)
replacer_CaseSensitive(match, items, n) ==
    LET key == SubSeq(match, 3, Len(match) - 1) IN
    IF n > Len(items) THEN match
    ELSE IF <<items[n].name>> = key THEN Str(items[n].value)
    ELSE replacer_CaseSensitive(match, items, n + 1)

\* replacer(match), lines 14-20, from item n of vars(contact) on.
RECURSIVE replacer(_, _, _)
replacer(match, items, n) ==
    LET key == SubSeq(match, 3, Len(match) - 1) IN
    IF n > Len(items) THEN match
    ELSE IF Lower(items[n].name) = LowerString(key, 1) THEN Str(items[n].value)
    ELSE replacer(match, items, n + 1)

\* pattern.sub(replacer, html_text) from position i on (line 22): the
\* matches are found left to right, the search goes on after each match.
RECURSIVE PatternSub(_, _, _)
PatternSub(s, items, i) ==
    IF i > Len(s) THEN << >>
    ELSE LET j == PatternMatchEnd(s, i)
         IN IF j = 0 THEN <<s[i]>> \o PatternSub(s, items, i + 1)
            ELSE replacer(SubSeq(s, i, j), items, 1) \o PatternSub(s, items, j + 1)

replace_email_template_placeholders(text, items) == PatternSub(text, items, 1)

\* ----------------------------------------------------------- lambda_handler
\* (src/Separations/lambda_handler.py)
\* Largest number of entries in the 'events' list of a request body.
MaxEvents == 2

\* The id of the email_status column (line 8), and another column's id; an
\* id is a JSON number or a JSON string of the same digits.
SMARTSHEET_COLUMN_EMAIL_STATUS_ID == [kind |-> "int", digits |-> "3592840163315588"]
OtherColumnId == [kind |-> "int", digits |-> "42"]
NoColumnId == [kind |-> "null", digits |-> ""]

\* One entry of 'events': an object with objectType, eventType and columnId
\* (absent keys read as None), or a value that is no object.
MkEvent(objectType, eventType, columnId) ==
    [is_dict |-> TRUE, objectType |-> objectType, eventType |-> eventType,
     columnId |-> columnId]
NotAnObject == [is_dict |-> FALSE, objectType |-> "", eventType |-> "", columnId |-> NoColumnId]

\* A request: headers is absent, null or an object whose challenge header is
\* absent (None), empty or a value; body is absent, null, a string that is not
\* JSON, or JSON text for an object ("dict") or for another value ("other");
\* an object has or lacks 'events', which is a list or null.
Request(headers_kind, challenge, body_kind, has_events, events_kind, events) ==
    [headers_kind |-> headers_kind, challenge |-> challenge, body_kind |-> body_kind,
     has_events |-> has_events, events_kind |-> events_kind, events |-> events]

NoEvent == Request("absent", None, "absent", FALSE, "list", << >>)

Respond(statusCode, hook_response, message, exc) ==
    [statusCode |-> statusCode, hook_response |-> hook_response, message |-> message,
     exc |-> exc]
NoResponse == Respond(0, None, "", NoExc)
FailedRequest == Respond(400, None, "Failed Request", NoExc)
Raised(exc) == Respond(0, None, "", exc)

\* Lines 74 and 78: the event makes the handler run main().
Qualifies(e) ==
    \/ e.objectType = "row" /\ e.eventType = "created"
    \/ e.eventType = "updated" /\ e.columnId = SMARTSHEET_COLUMN_EMAIL_STATUS_ID

\* EventLoop without the break of lines 77 and 81.
RECURSIVE EventLoop_NoBreak(_, _)
EventLoop_NoBreak(events, i) ==
    IF i > Len(events) THEN [runs |-> 0, exc |-> NoExc]
    ELSE IF ~events[i].is_dict THEN [runs |-> 0, exc |-> "AttributeError"]
    ELSE LET rest == EventLoop_NoBreak(events, i + 1)
         IN [rest EXCEPT !.runs = @ + (IF Qualifies(events[i]) THEN 1 ELSE 0)]

\* The for loop of lines 68-83 from entry i on: the number of main() runs and
\* the exception event.get raises on an entry that is no object.
RECURSIVE EventLoop(_, _)
EventLoop(events, i) ==
    IF i > Len(events) THEN [runs |-> 0, exc |-> NoExc]
    ELSE IF ~events[i].is_dict THEN [runs |-> 0, exc |-> "AttributeError"]
    ELSE IF Qualifies(events[i]) THEN [runs |-> 1, exc |-> NoExc]
    ELSE EventLoop(events, i + 1)

\* Lines 57-90, after the challenge check: what is returned or raised, and
\* how many times main() ran.
HandleEvents(ev) ==
    IF ev.body_kind = "other" THEN [response |-> Raised("AttributeError"), runs |-> 0]
    ELSE IF ev.body_kind = "absent" \/ ~ev.has_events \/ ev.events_kind = "null"
            \/ ev.events = << >>
         THEN [response |-> FailedRequest, runs |-> 0]
    ELSE LET loop == EventLoop(ev.events, 1)
         IN [response |-> IF loop.exc # NoExc THEN Raised(loop.exc)
                          ELSE Respond(200, None, "hello world!!", NoExc),
             runs |-> loop.runs]

\* lambda_handler looking at the events before the challenge header.
lambda_handler_ChallengeLast(ev) ==
    IF ev.body_kind \in {"invalid", "null"} THEN [response |-> FailedRequest, runs |-> 0]
    ELSE IF ev.headers_kind = "null" THEN [response |-> Raised("AttributeError"), runs |-> 0]
    ELSE LET handled == HandleEvents(ev)
         IN IF handled.runs = 0 /\ ev.headers_kind = "dict" /\ Truthy(ev.challenge)
            THEN [response |-> Respond(200, ev.challenge, "Challenge accepted", NoExc),
                  runs |-> 0]
            ELSE handled

\* lambda_handler(event, context), lines 13-90.
lambda_handler(ev) ==
    IF ev.body_kind \in {"invalid", "null"} THEN [response |-> FailedRequest, runs |-> 0]
    ELSE IF ev.headers_kind = "null" THEN [response |-> Raised("AttributeError"), runs |-> 0]
    ELSE IF ev.headers_kind = "dict" /\ Truthy(ev.challenge)
         THEN [response |-> Respond(200, ev.challenge, "Challenge accepted", NoExc),
               runs |-> 0]
    ELSE HandleEvents(ev)

\* ------------------------------ retrieve_separating_contacts_from_smartsheet
\* (src/Separations/main.py)
\* Largest number of rows of the separations sheet.
MaxRows == 2

SMARTSHEET_EMAIL_AWAITING_EMAIL_STATUS == <<"awaiting email">>
SMARTSHEET_EMAIL_EMAIL_SENT_STATUS == <<"email sent">>

\* SMARTSHEET_REQUIRED_COLUMN_TITLES_MAP, lines 62-66: column id, attribute.
SMARTSHEET_REQUIRED_COLUMN_TITLES_MAP ==
    <<[id |-> SMARTSHEET_COLUMN_EMAIL_STATUS_ID.digits, name |-> "email_status"],
      [id |-> "6495241300037508", name |-> "email"],
      [id |-> "4169898010562436", name |-> "last_day_date"]>>

\* smartsheet_json["columns"]: the three required columns and one more.
SheetColumns ==
    <<[id |-> SMARTSHEET_COLUMN_EMAIL_STATUS_ID.digits, title |-> "Email Status"],
      [id |-> "6495241300037508", title |-> "Email"],
      [id |-> "4169898010562436", title |-> "Last Day"],
      [id |-> "77", title |-> "Name"]>>

IntValue(n) == [kind |-> "int", chars |-> <<ToString(n)>>]

\* bool(v) of an attribute value: None and the empty string are false.
TruthyValue(v) == v.kind # "none" /\ v.chars # << >>

\* A dict with str keys as the sequence of its items in insertion order:
\* d.get(key) and d[key] = value.
RECURSIVE DictIndex(_, _, _)
DictIndex(d, key, n) ==
    IF n > Len(d) THEN 0 ELSE IF d[n].name = key THEN n ELSE DictIndex(d, key, n + 1)

DictGet(d, key) ==
    LET n == DictIndex(d, key, 1) IN IF n = 0 THEN NoneValue ELSE d[n].value

DictSet(d, key, value) ==
    LET n == DictIndex(d, key, 1) IN
    IF n = 0 THEN Append(d, Attr(key, value))
    ELSE [d EXCEPT ![n] = Attr(key, value)]

\* The lookup of a column id in one of the two maps: the position, 0 if the
\* id is no key of the map.
RECURSIVE ColumnIndex(_, _, _)
ColumnIndex(map, id, n) ==
    IF n > Len(map) THEN 0 ELSE IF map[n].id = id THEN n ELSE ColumnIndex(map, id, n + 1)

\* smartsheet_extra_column_titles_map, lines 105-109.
smartsheet_extra_column_titles_map(columns) == columns

\* One cell of a row: cell.get("columnId") and cell.get("value"), which is
\* None for a cell without a value.
Cell(columnId, value) == [columnId |-> columnId, value |-> value]

\* The loop over the cells of one row, lines 113-119, from cell i on.
RECURSIVE CellsLoop(_, _, _, _)
CellsLoop(contact_dict, columns, cells, i) ==
    IF i > Len(cells) THEN [exc |-> NoExc, contact_dict |-> contact_dict]
    ELSE LET cell_id == cells[i].columnId
             cell_value == cells[i].value
             r == ColumnIndex(SMARTSHEET_REQUIRED_COLUMN_TITLES_MAP, cell_id, 1)
             t == ColumnIndex(smartsheet_extra_column_titles_map(columns), cell_id, 1)
             d1 == IF r # 0
                   THEN DictSet(contact_dict,
                                SMARTSHEET_REQUIRED_COLUMN_TITLES_MAP[r].name, cell_value)
                   ELSE contact_dict
         IN IF t = 0 THEN [exc |-> "KeyError", contact_dict |-> d1]
            ELSE CellsLoop(DictSet(d1, columns[t].title, cell_value), columns, cells, i + 1)

\* The items of d other than the three named parameters, in their order.
Kwargs(d) ==
    SelectSeq(d, LAMBDA a : a.name \notin {"email_status", "email", "last_day_date"})

RowMissingData == "Exception: row missing crucial cell data."

\* The loop over the rows, lines 112-130, from row i on: contact_dict is the
\* dict the loop has reached row i with.
RECURSIVE RowsLoop(_, _, _, _, _)
RowsLoop(contact_dict, columns, rows, i, contacts) ==
    IF i > Len(rows) THEN [exc |-> NoExc, contacts |-> contacts]
    ELSE LET c == CellsLoop(contact_dict, columns, rows[i].cells, 1)
             email_status == DictGet(c.contact_dict, "email_status")
             email == DictGet(c.contact_dict, "email")
             last_day_date == DictGet(c.contact_dict, "last_day_date")
             d == DictSet(c.contact_dict, "smartsheet_row_id", IntValue(rows[i].id))
         IN IF c.exc # NoExc THEN [exc |-> c.exc, contacts |-> << >>]
            ELSE IF ~(TruthyValue(email_status) /\ TruthyValue(email) /\ TruthyValue(last_day_date))
            THEN [exc |-> RowMissingData, contacts |-> << >>]
            ELSE RowsLoop(d, columns, rows, i + 1,
                          Append(contacts,
                                 SmartsheetContact(email_status, email, last_day_date,
                                                   Kwargs(d))))

\* retrieve_separating_contacts_from_smartsheet, lines 97-133, on the sheet
\* that get_sheet returned: contact_dict is created once, at line 111, before
\* the loop over the rows.
retrieve_separating_contacts_from_smartsheet(columns, rows) ==
    RowsLoop(<< >>, columns, rows, 1, << >>)

NoRetrieve == [op |-> "none", exc |-> NoExc, contacts |-> << >>]
Retrieved(r) == [op |-> "retrieve", exc |-> r.exc, contacts |-> r.contacts]

\* ------------------------------------------------- the separations main()
\* (src/Separations/main.py, src/Separations/models.py)
\* Largest number of runs of main() that are followed.
MaxRuns == 2

\* What Box lists for the attachments folder during the runs of main().
AttachmentsListing == <<"policy.pdf">>

\* BoxFolder(id, contents), models.py lines 14-17: self.contents is the list
\* object that was passed, not a copy of it.
BoxFolder(id, contents) == [id |-> id, contents |-> contents]

\* download_attachments_and_email_template_from_box, lines 135-176.
\* default_contents is the list object that is the default value of the
\* parameter 'contents' of BoxFolder.__init__, made once per process: line 153
\* passes no contents, so the folder's list is that object and the appends of
\* line 156 go to it. fails says which call raises: get_folder_items
\* ("listing"), convert_boxnote_to_html ("convert") or none.
download_attachments_and_email_template_from_box(default_contents, listing, fails) ==
    LET box_attachments_folder == BoxFolder("364698186466", default_contents)
        appended == box_attachments_folder.contents \o listing
    IN IF fails = "listing"
       THEN [exc |-> "BoxAPIError", default_contents |-> default_contents,
             downloaded |-> << >>]
       ELSE [exc |-> IF fails = "convert" THEN "Exception" ELSE NoExc,
             default_contents |-> appended, downloaded |-> appended]

\* The row id of a contact.
RowIdOf(c) == DictGet(c, "smartsheet_row_id")

\* The loop without the handler of lines 202-205: a contact whose send_email
\* raised is counted as sent.
RECURSIVE SendLoop_NoHandler(_, _, _, _)
SendLoop_NoHandler(contacts, send_ok, i, lists) ==
    IF i > Len(contacts) THEN lists
    ELSE IF RowIdOf(contacts[i]) \in send_ok
    THEN SendLoop_NoHandler(contacts, send_ok, i + 1,
                  [lists EXCEPT !.success = Append(@, contacts[i]),
                                !.delivered = Append(@, contacts[i])])
    ELSE SendLoop_NoHandler(contacts, send_ok, i + 1,
                  [lists EXCEPT !.success = Append(@, contacts[i])])

\* The loop of lines 194-205 from contact i on: send_ok is the set of row ids
\* whose send_email completes, every other send_email raises.
RECURSIVE SendLoop(_, _, _, _)
SendLoop(contacts, send_ok, i, lists) ==
    IF i > Len(contacts) THEN lists
    ELSE IF RowIdOf(contacts[i]) \in send_ok
    THEN SendLoop(contacts, send_ok, i + 1,
                  [lists EXCEPT !.success = Append(@, contacts[i]),
                                !.delivered = Append(@, contacts[i])])
    ELSE SendLoop(contacts, send_ok, i + 1,
                  [lists EXCEPT !.failed = Append(@, contacts[i])])

\* send_customized_emails_and_attachments, lines 178-207: delivered are the
\* contacts send_email completed for, also when the function raises.
send_customized_emails_and_attachments(contacts, email_template, send_ok) ==
    IF email_template = << >>
    THEN [exc |-> "Exception: HTML Email template could not be found.",
          success |-> << >>, failed |-> << >>, delivered |-> << >>]
    ELSE SendLoop(contacts, send_ok, 1,
                  [exc |-> NoExc, success |-> << >>, failed |-> << >>,
                   delivered |-> << >>])

\* The row ids of a list of contacts.
RowIds(contacts) == {RowIdOf(contacts[i]) : i \in 1..Len(contacts)}

\* Sheets.update_rows with one row per contact, each with the email_status
\* cell set to 'email sent', lines 235-250: the cell replaces the row's cell
\* of that column.
SetEmailSent(row) ==
    [row EXCEPT !.cells =
        LET sent == Cell(SMARTSHEET_COLUMN_EMAIL_STATUS_ID.digits,
                         StrValue(SMARTSHEET_EMAIL_EMAIL_SENT_STATUS))
            others == SelectSeq(@, LAMBDA c : c.columnId # sent.columnId)
        IN <<sent>> \o others]

update_separation_contacts_to_email_sent(rows, contacts, update_ok) ==
    IF ~update_ok THEN [exc |-> "ApiError", rows |-> rows]
    ELSE [exc |-> NoExc,
          rows |-> [i \in 1..Len(rows) |->
                      IF IntValue(rows[i].id) \in RowIds(contacts)
                      THEN SetEmailSent(rows[i]) ELSE rows[i]]]

\* The filter of line 265.
AwaitingEmail(c) ==
    LowerString(DictGet(c, "email_status").chars, 1)
        = LowerString(SMARTSHEET_EMAIL_AWAITING_EMAIL_STATUS, 1)

\* What one run of main() is given from outside: the call that raises, if
\* one does (making the clients, get_folder_items, convert_boxnote_to_html,
\* update_rows, the clean-up) or the template being empty, what Box lists,
\* and the row ids send_email completes for.
RunFailures == {"none", "clients", "listing", "convert", "template", "update", "delete"}
RunInputs ==
    {inp \in [fails : RunFailures, listing : {AttachmentsListing, << >>},
              send_ok : SUBSET {IntValue(n) : n \in 1..MaxRows}] :
        /\ inp.listing = << >> <=> inp.fails \in {"clients", "listing"}
        /\ inp.fails \in {"clients", "listing", "convert", "template"}
              => inp.send_ok = {}}

EmailTemplate(inp) ==
    IF inp.fails = "template" THEN << >> ELSE <<"Dear", "$", "{", "Name", "}">>

\* The part of a run's result that a stage that was not reached leaves.
RunStart(rows, default_contents) ==
    [exit |-> "returned", rows |-> rows, default_contents |-> default_contents,
     retrieved |-> NoRetrieve, filtered |-> << >>, downloaded |-> << >>,
     sent |-> FALSE, success |-> << >>, failed |-> << >>, delivered |-> << >>,
     updating |-> FALSE, passed |-> << >>]

\* main(), lines 253-301, on the sheet 'rows' and in a process whose default
\* contents list is default_contents: exit is "returned" or the stage whose
\* handler called sys.exit(1).
main(rows, default_contents, inp) ==
    LET r0 == RunStart(rows, default_contents)
        got == retrieve_separating_contacts_from_smartsheet(SheetColumns, rows)
        filtered == SelectSeq(got.contacts, AwaitingEmail)
        r1 == [r0 EXCEPT !.retrieved = Retrieved(got), !.filtered = filtered]
        dl == download_attachments_and_email_template_from_box(
                  default_contents, inp.listing, inp.fails)
        r2 == [r1 EXCEPT !.default_contents = dl.default_contents,
                         !.downloaded = dl.downloaded]
        snd == send_customized_emails_and_attachments(
                   filtered, EmailTemplate(inp), inp.send_ok)
        r3 == [r2 EXCEPT !.sent = TRUE, !.success = snd.success,
                         !.failed = snd.failed, !.delivered = snd.delivered]
        upd == update_separation_contacts_to_email_sent(
                   rows, snd.success, inp.fails # "update")
        r4 == [r3 EXCEPT !.updating = TRUE, !.passed = snd.success,
                         !.rows = upd.rows]
    IN IF inp.fails = "clients" THEN [r0 EXCEPT !.exit = "clients"]
       ELSE IF got.exc # NoExc THEN [r1 EXCEPT !.exit = "retrieve"]
       ELSE IF Len(filtered) = 0 THEN [r1 EXCEPT !.exit = "no contacts"]
       ELSE IF dl.exc # NoExc THEN [r2 EXCEPT !.exit = "download"]
       ELSE IF snd.exc # NoExc THEN [r3 EXCEPT !.exit = "send"]
       ELSE IF upd.exc # NoExc THEN [r4 EXCEPT !.exit = "update"]
       ELSE IF inp.fails = "delete" THEN [r4 EXCEPT !.exit = "delete"]
       ELSE r4

\* What is kept of a run: its number, whether it ran in the process of the
\* run before it, the contents list it started with, what Box listed, the
\* row ids send_email completed for, how main() ended, and the row ids of the
\* lists it made; set_sent are the rows whose status the run made 'email sent'.
NoRun ==
    [n |-> 0, warm |-> FALSE, started_with |-> << >>, listing |-> << >>,
     downloaded |-> << >>, send_ok |-> {}, exit |-> "none", filtered |-> << >>,
     success |-> << >>, failed |-> << >>, delivered |-> << >>,
     updating |-> FALSE, passed |-> << >>, set_sent |-> {}]

\* ------------------------------------------------------- the EPR pipeline
\* (src/main.py)
\* Largest number of rows with the status 'Saving to Box'.
MaxEprRows == 2

\* One entry of filtered_rows (lines 83-95): the row id, and whether the
\* cells row[4] and row[5] (first and last name) carry a value.
EprRow(rowId, named) == [rowId |-> rowId, named |-> named]

\* error_map = defaultdict(list), line 30, as the list of every row id: the
\* empty list stands for a row id that is no key. Keys are only made by
\* error_map[row_id].append(...).
NoErrors(rows) == [i \in 1..Len(rows) |-> << >>]
InErrorMap(row_id, error_map) == error_map[row_id] # << >>
LenErrorMap(error_map) ==
    Cardinality({i \in 1..Len(error_map) : InErrorMap(i, error_map)})
Record(error_map, row_id, message) ==
    [error_map EXCEPT ![row_id] = Append(@, message)]

\* box_helper.upload_file_to_box_by_url(attachment_url, filename), called at
\* line 150, by what the handlers of lines 152-162 tell apart: it returns, or
\* raises FileExistsError, RuntimeError or another exception.
UploadOutcomes == {"uploaded", "FileExistsError", "RuntimeError", "Exception"}
upload_file_to_box_by_url(outcome) ==
    [exc |-> IF outcome = "uploaded" THEN NoExc ELSE outcome]

\* What the save stage meets at one row: no attachment, or an attachment and
\* an outcome of the upload.
SaveOutcomes == {"no attachment"} \cup UploadOutcomes

\* The loop of save_epr_attachments_to_box, lines 116-162, from row i on.
RECURSIVE SaveLoop(_, _, _, _)
SaveLoop(filtered_rows, meets, i, st) ==
    IF i > Len(filtered_rows) THEN st
    ELSE LET row_id == filtered_rows[i].rowId
             up == upload_file_to_box_by_url(meets[i])
         IN IF meets[i] = "no attachment"
            THEN SaveLoop(filtered_rows, meets, i + 1,
                     [st EXCEPT !.error_map =
                         Record(@, row_id, "Must have atleast 1 EPR attached")])
            ELSE IF ~filtered_rows[i].named THEN [st EXCEPT !.exc = "KeyError"]
            ELSE IF up.exc = NoExc
            THEN SaveLoop(filtered_rows, meets, i + 1,
                     [st EXCEPT !.done = @ \cup {row_id}])
            ELSE IF up.exc = "FileExistsError"
            THEN SaveLoop(filtered_rows, meets, i + 1,
                     [st EXCEPT !.error_map =
                         Record(@, row_id, "Attachment already exists in Box")])
            ELSE IF up.exc = "RuntimeError" THEN [st EXCEPT !.exc = "RuntimeError"]
            ELSE SaveLoop(filtered_rows, meets, i + 1,
                     [st EXCEPT !.error_map =
                         Record(@, row_id,
                             "Attachment failed to upload to Box for an unknown reason")])

save_epr_attachments_to_box(filtered_rows, error_map, meets) ==
    SaveLoop(filtered_rows, meets, 1,
             [exc |-> NoExc, error_map |-> error_map, done |-> {}, counter |-> FALSE])

\* What the copy stage meets at one row: every call completes, copy_rows
\* raises, or copy_rows completes and get_sheet or update_rows raises.
CopyOutcomes == {"copied", "copy_rows raises", "update_rows raises"}

\* The loop without the check of lines 187-188.
RECURSIVE CopyLoop_NoCheck(_, _, _, _)
CopyLoop_NoCheck(filtered_rows, meets, i, st) ==
    IF i > Len(filtered_rows) THEN st
    ELSE LET row_id == filtered_rows[i].rowId
             failed == [st EXCEPT !.error_map =
                           Record(@, row_id, "Row failed to be saved in the history table")]
         IN IF ~filtered_rows[i].named THEN [st EXCEPT !.exc = "KeyError"]
            ELSE IF meets[i] = "copied"
            THEN CopyLoop_NoCheck(filtered_rows, meets, i + 1,
                     [st EXCEPT !.done = @ \cup {row_id}])
            ELSE IF meets[i] = "copy_rows raises"
            THEN CopyLoop_NoCheck(filtered_rows, meets, i + 1, failed)
            ELSE CopyLoop_NoCheck(filtered_rows, meets, i + 1,
                     [failed EXCEPT !.done = @ \cup {row_id}])

\* The loop of copy_smartsheet_rows_to_history_table, lines 181-231, from row
\* i on: the names are read (lines 183-184) before error_map is looked at.
RECURSIVE CopyLoop(_, _, _, _)
CopyLoop(filtered_rows, meets, i, st) ==
    IF i > Len(filtered_rows) THEN st
    ELSE LET row_id == filtered_rows[i].rowId
             failed == [st EXCEPT !.error_map =
                           Record(@, row_id, "Row failed to be saved in the history table")]
         IN IF ~filtered_rows[i].named THEN [st EXCEPT !.exc = "KeyError"]
            ELSE IF InErrorMap(row_id, st.error_map)
            THEN CopyLoop(filtered_rows, meets, i + 1, st)
            ELSE IF meets[i] = "copied"
            THEN CopyLoop(filtered_rows, meets, i + 1,
                     [st EXCEPT !.done = @ \cup {row_id}])
            ELSE IF meets[i] = "copy_rows raises"
            THEN CopyLoop(filtered_rows, meets, i + 1, failed)
            ELSE CopyLoop(filtered_rows, meets, i + 1,
                     [failed EXCEPT !.done = @ \cup {row_id}])

copy_smartsheet_rows_to_history_table(filtered_rows, error_map, meets) ==
    CopyLoop(filtered_rows, meets, 1,
             [exc |-> NoExc, error_map |-> error_map, done |-> {}, counter |-> FALSE])

\* What the reset stage meets at one row: update_rows completes, the row has
\* no probation quarter or no employment status (lines 316, 344, 371), or a
\* call inside the try raises before update_rows has completed.
ResetOutcomes == {"reset", "missing quarter", "missing status", "raises"}

\* The loop of reset_columns_for_next_epr_due_date, lines 264-416, from row i
\* on; st.counter says whether 'counter' is bound, which line 412 does after
\* a row was reset and the handler of line 415 needs.
RECURSIVE ResetLoop(_, _, _, _)
ResetLoop(filtered_rows, meets, i, st) ==
    IF i > Len(filtered_rows) THEN st
    ELSE LET row_id == filtered_rows[i].rowId IN
         IF InErrorMap(row_id, st.error_map)
         THEN ResetLoop(filtered_rows, meets, i + 1, st)
         ELSE IF meets[i] = "reset"
         THEN ResetLoop(filtered_rows, meets, i + 1,
                  [st EXCEPT !.done = @ \cup {row_id}, !.counter = TRUE])
         ELSE IF meets[i] = "missing quarter"
         THEN ResetLoop(filtered_rows, meets, i + 1,
                  [st EXCEPT !.error_map =
                      Record(@, row_id, "Row failed to be reset because it is missing a probation quarter value")])
         ELSE IF meets[i] = "missing status"
         THEN ResetLoop(filtered_rows, meets, i + 1,
                  [st EXCEPT !.error_map =
                      Record(@, row_id, "Row failed to be reset because it is missing an employment status value")])
         ELSE IF ~st.counter THEN [st EXCEPT !.exc = "UnboundLocalError"]
         ELSE ResetLoop(filtered_rows, meets, i + 1,
                  [st EXCEPT !.error_map =
                      Record(@, row_id, "Row failed to be reset for the next EPR due date")])

reset_columns_for_next_epr_due_date(filtered_rows, error_map, meets) ==
    ResetLoop(filtered_rows, meets, 1,
              [exc |-> NoExc, error_map |-> error_map, done |-> {}, counter |-> FALSE])

\* The check main() makes after each stage, lines 452, 470 and 486.
EveryRowFailed(filtered_rows, error_map) ==
    LenErrorMap(error_map) > 0 /\ LenErrorMap(error_map) = Len(filtered_rows)

\* The position of main() (lines 419-497): before the rows are fetched,
\* before each of the three stages, after the last one, or left by sys.exit.
NoEpr == [pc |-> "idle", filtered_rows |-> << >>, saved |-> {}, copied |-> {},
          reset |-> {}, exc |-> NoExc]

\* ---------------------------------------------------------------- the state
VARIABLES
    boxnote_content,   \* the payload handed to parse
    token, user,       \* the module globals of lines 20-21
    outcome,           \* the last call: what it raised or returned
    output_html_file,  \* the file convert_boxnote_to_html writes
    html_text,         \* the e-mail template handed to replace_email_template_placeholders
    contact,           \* the SmartsheetContact handed to it: its attributes in order
    email_html,        \* what replace_email_template_placeholders returned
    event,             \* the request handed to lambda_handler
    response,          \* what lambda_handler returned, or the exception it raised
    main_calls,        \* how many times that invocation of lambda_handler ran main()
    smartsheet_json,   \* the rows of the separations sheet
    retrieved,         \* what the last retrieve_separating_contacts_from_smartsheet gave
    default_contents,  \* the list that is the default 'contents' of BoxFolder.__init__
    mailbox,           \* per row id, how many e-mails send_email has delivered
    run,               \* the last run of the separations main()
    error_map,         \* the module global error_map of src/main.py
    epr                \* where the EPR main() is, and what its stages have done

parserVars == <<boxnote_content, token, user, outcome, output_html_file>>
mailVars == <<html_text, contact, email_html>>
hookVars == <<event, response, main_calls>>
separationsVars == <<smartsheet_json, retrieved, default_contents, mailbox, run>>
eprVars == <<error_map, epr>>
pipelineVars == <<separationsVars, eprVars>>
vars == <<parserVars, mailVars, hookVars, pipelineVars>>

Title == <<"Test">>
FileStem == <<"template">>
Workdir == <<"cwd">>
BoxToken == <<"boxtok">>
AccessTokens == {<<"tokA">>}
UserIds == {None}

NoCall ==
    [op |-> "none", title |-> << >>, exc |-> NoExc, result |-> None,
     contents |-> << >>, calls |-> << >>]

\* Nothing has been called yet.
ParserIdle ==
    /\ token = None
    /\ user = None
    /\ outcome = NoCall
    /\ output_html_file = None

\* The e-mail helper and the webhook handler are not part of the run.
MailIdle == html_text = << >> /\ contact = << >> /\ email_html = None
HookIdle == event = NoEvent /\ response = NoResponse /\ main_calls = 0

\* Neither pipeline is part of the run.
SeparationsIdle ==
    /\ smartsheet_json = << >>
    /\ retrieved = NoRetrieve
    /\ default_contents = << >>
    /\ mailbox = << >>
    /\ run = NoRun
EprIdle == error_map = << >> /\ epr = NoEpr
PipelinesIdle == SeparationsIdle /\ EprIdle

Init ==
    /\ IsPayload(boxnote_content)
    /\ ParserIdle
    /\ MailIdle
    /\ HookIdle
    /\ PipelinesIdle

Called(op, title, r) ==
    [op |-> op, title |-> title, exc |-> r.exc, result |-> r.result,
     contents |-> r.contents, calls |-> r.calls]

\* A caller runs parse(boxnote_content, Title, workdir, access_token, user_id).
ParseCall(access_token, user_id) ==
    LET g == SetGlobals(token, user, access_token, user_id) IN
    /\ token' = g.token
    /\ user' = g.user
    /\ outcome' = Called("parse", Title, parse(boxnote_content, Title, Workdir, g))
    /\ UNCHANGED <<boxnote_content, output_html_file, mailVars, hookVars, pipelineVars>>

\* convert_boxnote_to_html(input, box_token, output), lines 121-129: the output
\* file is opened for writing (truncated) before parse runs.
ConvertBoxnoteToHtml ==
    LET g == SetGlobals(token, user, BoxToken, None)
        r == parse(boxnote_content, FileStem, Workdir, g) IN
    /\ token' = g.token
    /\ user' = g.user
    /\ outcome' = Called("convert", FileStem, r)
    /\ output_html_file' = IF r.exc = NoExc THEN r.result ELSE << >>
    /\ UNCHANGED <<boxnote_content, mailVars, hookVars, pipelineVars>>

Next ==
    \/ \E access_token \in AccessTokens, user_id \in UserIds :
          ParseCall(access_token, user_id)
    \/ ConvertBoxnoteToHtml

Spec == Init /\ [][Next]_vars

\* ------------------------------------------------- paragraphs and their marks
\* Largest number of marks on a paragraph.
MaxMarks == 2

\* The marks a paragraph may carry: an alignment, a mark of another type, an
\* alignment mark that has no 'attrs'.
AlignmentWithoutAttrs ==
    [is_dict |-> TRUE, type |-> "alignment", has_attrs |-> FALSE, alignment |-> << >>]
MarkKinds ==
    { MkMark("alignment", <<"left">>), MkMark("alignment", <<"center">>),
      MkMark("alignment", <<"right">>), MkMark("strong", << >>), AlignmentWithoutAttrs }

MarkedParagraph(marks) ==
    NodeOf(Label({"type", "marks"}, "paragraph", << >>, marks, NoAttrs),
           <<NodeOf(TextNode, << >>)>>)

\* A paragraph with a text, at the top of the document, in a passthrough
\* node or in a list item.
MarkContexts == {"top", "strong", "list_item"}
InContext(ctx, node) ==
    CASE ctx = "top" -> Document(<<node>>)
      [] ctx = "strong" -> Document(<<NodeOf(Strong, <<node>>)>>)
      [] OTHER -> Document(<<NodeOf(ListItem, <<node>>)>>)

InitMarks ==
    /\ \E n \in 0..MaxMarks : \E marks \in [1..n -> MarkKinds] : \E ctx \in MarkContexts :
          boxnote_content = InContext(ctx, MarkedParagraph(marks))
    /\ ParserIdle
    /\ MailIdle
    /\ HookIdle
    /\ PipelinesIdle

SpecMarks == InitMarks /\ [][Next]_vars

\* ------------------------------------------- check list items, forms of content
UncheckedItem ==
    Label({"type", "attrs"}, "check_list_item", << >>, << >>,
          [keys |-> {"checked"}, checked |-> FALSE, src |-> << >>])

ItemLabels == {CheckedItem, UncheckedItem, Paragraph, TextNode}

\* How 'content' is written: one child as a list of one or as the object
\* itself; no child as no key, as null or as an empty list.
ContentForms ==
    [single : {"list", "dict"}, none : {"absent", "null", "empty"}]

ContentOf(kids, form) ==
    IF kids = << >> THEN (IF form.none = "empty" THEN JList(<< >>) ELSE JNull)
    ELSE IF Len(kids) = 1 /\ form.single = "dict" THEN JDict(kids[1])
    ELSE JList(kids)

\* The node with label l and the children `kids`, its content written in form.
NodeOfForm(l, kids, form) ==
    MkNode(IF kids = << >> /\ form.none = "absent" THEN l.keys ELSE l.keys \cup {"content"},
           l.type, l.text, l.marks, l.attrs, ContentOf(kids, form))

RECURSIVE ForestOfForm(_, _, _, _, _)
ForestOfForm(d, lab, lo, hi, form) ==
    IF lo > hi THEN << >>
    ELSE LET e == SubtreeEnd(d, lo, lo)
         IN <<NodeOfForm(lab[lo], ForestOfForm(d, lab, lo + 1, e, form), form)>>
              \o ForestOfForm(d, lab, e + 1, hi, form)

\* {"doc": {"content": ...}} with the node sequence written in form.
DocumentOfForm(nodes, form) ==
    Payload(TRUE, "dict", {"doc"}, "dict", {"content"}, ContentOf(nodes, form))

InitItems ==
    /\ \E n \in 0..MaxNodes : \E d \in Shapes(n) : \E lab \in [1..n -> ItemLabels] :
       \E form \in ContentForms :
          boxnote_content = DocumentOfForm(ForestOfForm(d, lab, 1, n, form), form)
    /\ ParserIdle
    /\ MailIdle
    /\ HookIdle
    /\ PipelinesIdle

SpecItems == InitItems /\ [][Next]_vars

\* ------------------------------------------------------ the e-mail template
\* What a template is put together from: single characters, a word, and the
\* placeholders of three attributes and of no attribute.
Pieces ==
    { <<"$">>, <<"{">>, <<"}">>, <<"EMAIL">>,
      <<"$", "{", "EMAIL", "}">>, <<"$", "{", "Name", "}">>,
      <<"$", "{", "last_day_date", "}">>, <<"$", "{", "nope", "}">> }

RECURSIVE Flatten(_, _)
Flatten(pieces, i) ==
    IF i > Len(pieces) THEN << >> ELSE pieces[i] \o Flatten(pieces, i + 1)

\* A contact with the three named attributes only; one whose column 'Name'
\* holds the text of a placeholder; one with a column 'Email' beside the
\* attribute email, and None as the value of 'Name'.
Contacts ==
    { SmartsheetContact(StrValue(<<"Not Sent">>), StrValue(<<"a@b.c">>),
                        DateValue("2025-01-31"), << >>),
      SmartsheetContact(StrValue(<<"Not Sent">>), StrValue(<<"a@b.c">>),
                        DateValue("2025-01-31"),
                        <<Attr("Name", StrValue(<<"$", "{", "EMAIL", "}">>))>>),
      SmartsheetContact(StrValue(<<"Not Sent">>), StrValue(<<"a@b.c">>),
                        DateValue("2025-01-31"),
                        <<Attr("Email", StrValue(<<"other">>)), Attr("Name", NoneValue)>>) }

InitMail ==
    /\ \E n \in 0..MaxPieces : \E pieces \in [1..n -> Pieces] :
          html_text = Flatten(pieces, 1)
    /\ contact \in Contacts
    /\ email_html = None
    /\ boxnote_content = Document(<< >>)
    /\ ParserIdle
    /\ HookIdle
    /\ PipelinesIdle

\* replace_email_template_placeholders(html_text, contact) is called.
ReplacePlaceholders ==
    /\ email_html' = replace_email_template_placeholders(html_text, contact)
    /\ UNCHANGED <<html_text, contact, parserVars, hookVars, pipelineVars>>

NextMail == ReplacePlaceholders

SpecMail == InitMail /\ [][NextMail]_vars

\* ------------------------------------------------------ the webhook requests
\* The entries an 'events' list is made of.
EventKinds ==
    { MkEvent("row", "created", NoColumnId),
      MkEvent("row", "updated", SMARTSHEET_COLUMN_EMAIL_STATUS_ID),
      MkEvent("cell", "updated", SMARTSHEET_COLUMN_EMAIL_STATUS_ID),
      MkEvent("row", "updated", OtherColumnId),
      MkEvent("sheet", "created", NoColumnId),
      MkEvent("row", "deleted", NoColumnId),
      NotAnObject }

EventLists == UNION {[1..n -> EventKinds] : n \in 0..MaxEvents}

\* headers: absent, null, without the challenge header, with an empty one,
\* with a challenge.
HeaderForms ==
    { <<"absent", None>>, <<"null", None>>, <<"dict", None>>, <<"dict", << >> >>,
      <<"dict", <<"abc123">> >> }

\* body: absent, null, not JSON, JSON that is no object, an object without
\* 'events', with "events": null, with a list of events.
BodyForms ==
    { <<"absent", FALSE, "list", << >> >>, <<"null", FALSE, "list", << >> >>,
      <<"invalid", FALSE, "list", << >> >>, <<"other", FALSE, "list", << >> >>,
      <<"dict", FALSE, "list", << >> >>, <<"dict", TRUE, "null", << >> >> }
      \cup {<<"dict", TRUE, "list", events>> : events \in EventLists}

Requests ==
    {Request(h[1], h[2], b[1], b[2], b[3], b[4]) : h \in HeaderForms, b \in BodyForms}

InitHook ==
    /\ HookIdle
    /\ PipelinesIdle
    /\ boxnote_content = Document(<< >>)
    /\ ParserIdle
    /\ MailIdle

\* The Lambda runtime calls lambda_handler(ev, context).
Invoke(ev) ==
    LET r == lambda_handler(ev) IN
    /\ event' = ev
    /\ response' = r.response
    /\ main_calls' = r.runs
    /\ UNCHANGED <<parserVars, mailVars, pipelineVars>>

NextHook == \E ev \in Requests : Invoke(ev)

SpecHook == InitHook /\ [][NextHook]_vars

\* ------------------------------------------------ calls with and without a token
\* What a caller passes as access_token and as user_id: nothing (the default
\* None) or a value.
CallTokens == {None, <<"tokA">>, <<"tokB">>}
CallUsers == {None, <<"user1">>}

\* Documents of images and paragraphs.
CallLabels == {ImageNode, Paragraph}

InitCalls ==
    /\ \E n \in 1..MaxNodes : \E d \in Shapes(n) : \E lab \in [1..n -> CallLabels] :
          boxnote_content = Document(Forest(d, lab, 1, n))
    /\ ParserIdle
    /\ MailIdle
    /\ HookIdle
    /\ PipelinesIdle

NextCalls ==
    \/ \E access_token \in CallTokens, user_id \in CallUsers :
          ParseCall(access_token, user_id)
    \/ ConvertBoxnoteToHtml

SpecCalls == InitCalls /\ [][NextCalls]_vars

\* ------------------------------------------------- the separations sheet
\* A row of smartsheet_json["rows"] is its id and its cells in column order.
\* The form of a cell: no cell for the column in the row (AbsentCell), a cell
\* without a value (NoneValue), or a cell with a value.
AbsentCell == [kind |-> "absent", chars |-> << >>]

RECURSIVE RowCellsFrom(_, _)
RowCellsFrom(forms, n) ==
    IF n > Len(forms) THEN << >>
    ELSE (IF forms[n] = AbsentCell THEN << >>
          ELSE <<Cell(SheetColumns[n].id, forms[n])>>) \o RowCellsFrom(forms, n + 1)

SheetRow(id, forms) == [id |-> id, cells |-> RowCellsFrom(forms, 1)]

\* A value that only row 'id' has.
Tagged(word, id) == StrValue(<<word \o ToString(id)>>)

\* Rows with any form of cell in each column.
AnyRows(id) ==
    {SheetRow(id, <<s, e, l, n>>) :
        s \in {AbsentCell, NoneValue, StrValue(SMARTSHEET_EMAIL_AWAITING_EMAIL_STATUS)},
        e \in {AbsentCell, NoneValue, Tagged("mail", id)},
        l \in {AbsentCell, Tagged("day", id)},
        n \in {AbsentCell, Tagged("name", id)}}

RECURSIVE AnySheets(_)
AnySheets(k) ==
    IF k = 0 THEN {<< >>}
    ELSE {Append(rows, row) : rows \in AnySheets(k - 1), row \in AnyRows(k)}

\* Rows of the tracker as the sheet is kept: every cell is there, the
\* e-mail status is one of the two the script knows, written either way.
TrackerRows(id) ==
    {SheetRow(id, <<s, Tagged("mail", id), Tagged("day", id), Tagged("name", id)>>) :
        s \in {StrValue(SMARTSHEET_EMAIL_AWAITING_EMAIL_STATUS),
               StrValue(<<"Awaiting Email">>),
               StrValue(SMARTSHEET_EMAIL_EMAIL_SENT_STATUS)}}

RECURSIVE TrackerSheets(_)
TrackerSheets(k) ==
    IF k = 0 THEN {<< >>}
    ELSE {Append(rows, row) : rows \in TrackerSheets(k - 1), row \in TrackerRows(k)}

\* retrieve_separating_contacts_from_smartsheet is called on a sheet.
InitRetrieve ==
    /\ \E k \in 0..MaxRows : smartsheet_json \in AnySheets(k)
    /\ retrieved = NoRetrieve
    /\ default_contents = << >> /\ mailbox = << >> /\ run = NoRun
    /\ EprIdle
    /\ ParserIdle /\ boxnote_content = Document(<< >>)
    /\ MailIdle
    /\ HookIdle

Retrieve ==
    /\ retrieved = NoRetrieve
    /\ retrieved' = Retrieved(retrieve_separating_contacts_from_smartsheet(
                                  SheetColumns, smartsheet_json))
    /\ UNCHANGED <<smartsheet_json, default_contents, mailbox, run, eprVars,
                   parserVars, mailVars, hookVars>>

NextRetrieve == Retrieve

SpecRetrieve == InitRetrieve /\ [][NextRetrieve]_vars

\* --------------------------------------------- runs of the separations main()
InitSeparations ==
    /\ smartsheet_json \in TrackerSheets(MaxRows)
    /\ retrieved = NoRetrieve
    /\ default_contents = << >>
    /\ mailbox = [i \in 1..Len(smartsheet_json) |-> 0]
    /\ run = NoRun
    /\ EprIdle
    /\ ParserIdle /\ boxnote_content = Document(<< >>)
    /\ MailIdle
    /\ HookIdle

\* The value of the cell of a column among the cells of a row, None if the
\* row has no such cell; the e-mail status of row i of a sheet.
RECURSIVE CellValue(_, _, _)
CellValue(cells, columnId, n) ==
    IF n > Len(cells) THEN NoneValue
    ELSE IF cells[n].columnId = columnId THEN cells[n].value
    ELSE CellValue(cells, columnId, n + 1)

EmailStatus(rows, i) ==
    CellValue(rows[i].cells, SMARTSHEET_COLUMN_EMAIL_STATUS_ID.digits, 1)

EmailSent(rows, i) == EmailStatus(rows, i) = StrValue(SMARTSHEET_EMAIL_EMAIL_SENT_STATUS)

\* The row ids of a list of contacts, in the order of the list.
RowIdList(contacts) == [k \in 1..Len(contacts) |-> RowIdOf(contacts[k])]

\* How many of the contacts have row id i.
Deliveries(contacts, i) ==
    Cardinality({k \in 1..Len(contacts) : RowIdOf(contacts[k]) = IntValue(i)})

\* One run of main(). A run in the process of the run before it (a warm
\* lambda invocation) is possible when that run returned: sys.exit(1) ends
\* the process, and a new process makes the default contents list anew.
Main(inp, warm) ==
    /\ run.n < MaxRuns
    /\ warm => run.n > 0 /\ run.exit = "returned"
    /\ \E started_with \in {IF warm THEN default_contents ELSE << >>} :
       \E result \in {main(smartsheet_json, started_with, inp)} :
          /\ smartsheet_json' = result.rows
          /\ retrieved' = result.retrieved
          /\ default_contents' = result.default_contents
          /\ mailbox' = [i \in DOMAIN mailbox |->
                            mailbox[i] + Deliveries(result.delivered, i)]
          /\ run' = [n |-> run.n + 1, warm |-> warm, started_with |-> started_with,
                     listing |-> IF result.exit \in {"retrieve", "no contacts"}
                                 THEN << >> ELSE inp.listing,
                     downloaded |-> result.downloaded,
                     send_ok |-> IF result.sent
                                 THEN inp.send_ok \cap RowIds(result.filtered) ELSE {},
                     exit |-> result.exit,
                     filtered |-> RowIdList(result.filtered),
                     success |-> RowIdList(result.success),
                     failed |-> RowIdList(result.failed),
                     delivered |-> RowIdList(result.delivered),
                     updating |-> result.updating,
                     passed |-> RowIdList(result.passed),
                     set_sent |-> {i \in 1..Len(smartsheet_json) :
                                     /\ ~EmailSent(smartsheet_json, i)
                                     /\ EmailSent(result.rows, i)}]
          /\ UNCHANGED <<eprVars, parserVars, mailVars, hookVars>>

NextSeparations == \E inp \in RunInputs, warm \in BOOLEAN : Main(inp, warm)

SpecSeparations == InitSeparations /\ [][NextSeparations]_vars

\* ------------------------------------------------- a run of the EPR main()
EprRowLists(k) == {[i \in 1..k |-> EprRow(i, named[i])] : named \in [1..k -> BOOLEAN]}

InitEpr ==
    /\ EprIdle
    /\ SeparationsIdle
    /\ ParserIdle /\ boxnote_content = Document(<< >>)
    /\ MailIdle
    /\ HookIdle

\* main() up to line 441: the client is made and the rows with the status
\* 'Saving to Box' are fetched; no such row ends the run.
FetchRows(client_ok, filtered_rows) ==
    /\ epr.pc = "idle"
    /\ epr' = IF ~client_ok THEN [epr EXCEPT !.pc = "exit", !.exc = "RuntimeError"]
              ELSE IF Len(filtered_rows) = 0 THEN [epr EXCEPT !.pc = "exit"]
              ELSE [epr EXCEPT !.pc = "save", !.filtered_rows = filtered_rows]
    /\ error_map' = IF client_ok THEN NoErrors(filtered_rows) ELSE error_map
    /\ UNCHANGED <<separationsVars, parserVars, mailVars, hookVars>>

\* Where main() is after a stage that ended as st: sys.exit(1) when the
\* stage raised or every row has failed, the next stage otherwise.
AfterStage(st, next) ==
    IF st.exc # NoExc THEN [pc |-> "exit", exc |-> st.exc]
    ELSE IF EveryRowFailed(epr.filtered_rows, st.error_map)
    THEN [pc |-> "exit", exc |-> "RuntimeError"]
    ELSE [pc |-> next, exc |-> NoExc]

\* Lines 443-463.
SaveStage(meets) ==
    LET st == save_epr_attachments_to_box(epr.filtered_rows, error_map, meets)
        after == AfterStage(st, "copy")
    IN /\ epr.pc = "save"
       /\ error_map' = st.error_map
       /\ epr' = [epr EXCEPT !.pc = after.pc, !.exc = after.exc, !.saved = st.done]
       /\ UNCHANGED <<separationsVars, parserVars, mailVars, hookVars>>

\* Lines 465-479.
CopyStage(meets) ==
    LET st == copy_smartsheet_rows_to_history_table(epr.filtered_rows, error_map, meets)
        after == AfterStage(st, "reset")
    IN /\ epr.pc = "copy"
       /\ error_map' = st.error_map
       /\ epr' = [epr EXCEPT !.pc = after.pc, !.exc = after.exc, !.copied = st.done]
       /\ UNCHANGED <<separationsVars, parserVars, mailVars, hookVars>>

\* Lines 481-497.
ResetStage(meets) ==
    LET st == reset_columns_for_next_epr_due_date(epr.filtered_rows, error_map, meets)
        after == AfterStage(st, "done")
    IN /\ epr.pc = "reset"
       /\ error_map' = st.error_map
       /\ epr' = [epr EXCEPT !.pc = after.pc, !.exc = after.exc, !.reset = st.done]
       /\ UNCHANGED <<separationsVars, parserVars, mailVars, hookVars>>

EprRowIds == 1..Len(epr.filtered_rows)

NextEpr ==
    \/ \E client_ok \in BOOLEAN, k \in 0..MaxEprRows :
          \E filtered_rows \in EprRowLists(k) : FetchRows(client_ok, filtered_rows)
    \/ \E meets \in [EprRowIds -> SaveOutcomes] : SaveStage(meets)
    \/ \E meets \in [EprRowIds -> CopyOutcomes] : CopyStage(meets)
    \/ \E meets \in [EprRowIds -> ResetOutcomes] : ResetStage(meets)

SpecEpr == InitEpr /\ [][NextEpr]_vars

\* =================================================================== claims
\* The nodes of doc.content, and the children of a node, as the payload gives them.
TopNodes == boxnote_content.content.items
Children(node) == IF "content" \in node.keys THEN node.content.items ELSE << >>

\* {"doc": {"content": ...}} was given: the document-level checks have nothing to refuse.
HasDocAndContent ==
    /\ boxnote_content.parseable
    /\ boxnote_content.root_kind = "dict" /\ "doc" \in boxnote_content.root_keys
    /\ boxnote_content.doc_kind = "dict" /\ "content" \in boxnote_content.doc_keys

\* A call has been made; it returned a string.
WasCalled == outcome.op # "none"
Returned == WasCalled /\ outcome.exc = NoExc

\* The fragments appended after the eight fragments of the skeleton.
Body(contents) == SubSeq(contents, 9, Len(contents))

\* The types of the node type catalog.
Catalog ==
    {"paragraph", "text", "check_list_item", "image"} \cup SuppressingTypes \cup PassthroughTypes

\* Some node object of the tree has no 'type' key.
RECURSIVE AnyNodeLacksType(_)
AnyNodeLacksType(nodes) ==
    \E i \in 1..Len(nodes) :
        "type" \notin nodes[i].keys \/ AnyNodeLacksType(Children(nodes[i]))

\* No node of the tree has a defect other than a missing type: every image
\* resolves, every check_list_item has attrs.checked, every mark is an object.
RECURSIVE NoOtherDefect(_)
NoOtherDefect(nodes) ==
    \A i \in 1..Len(nodes) :
        /\ ~(nodes[i].type = "image" /\ ResolverRaises(GetAttrs(nodes[i])))
        /\ nodes[i].type = "check_list_item" =>
              "attrs" \in nodes[i].keys /\ "checked" \in nodes[i].attrs.keys
        /\ \A m \in 1..Len(GetMarks(nodes[i])) : GetMarks(nodes[i])[m].is_dict
        /\ NoOtherDefect(Children(nodes[i]))

\* C1 (as claimed): whenever any node object anywhere in the tree lacks a
\* 'type' key, parse raises the no-type error and returns no HTML string.
\* Stated for documents with no other defect, so that no other error decides.
C1_MissingTypeAlwaysFails ==
    (WasCalled /\ HasDocAndContent /\ AnyNodeLacksType(TopNodes) /\ NoOtherDefect(TopNodes))
        => (outcome.exc = "ValueError: no type field" /\ outcome.result = None)

\* The node sequence without its nodes of a type outside the catalog (and so
\* without their subtrees), at every level.
RECURSIVE PruneUnknown(_, _)
PruneUnknown(nodes, i) ==
    IF i > Len(nodes) THEN << >>
    ELSE IF "type" \in nodes[i].keys /\ nodes[i].type \notin Catalog
         THEN PruneUnknown(nodes, i + 1)
    ELSE << [nodes[i] EXCEPT !.content =
                IF "content" \in nodes[i].keys
                THEN JList(PruneUnknown(nodes[i].content.items, 1)) ELSE @] >>
         \o PruneUnknown(nodes, i + 1)

\* C2: a call on a document gives exactly what the same call gives on the
\* document with its unknown-type nodes (subtrees included) taken out: the same
\* fragments, the same resolver calls, the same string or exception; no
\* fragment is a tag of the unknown type; and when what is left has neither a
\* node without type nor another defect, parse returns.
C2_UnknownTypeIsAbsent ==
    (WasCalled /\ HasDocAndContent) =>
        LET pruned == PruneUnknown(TopNodes, 1)
            p == parse(Document(pruned), outcome.title, Workdir,
                       [token |-> token, user |-> user])
        IN /\ outcome.exc = p.exc
           /\ outcome.result = p.result
           /\ outcome.contents = p.contents
           /\ outcome.calls = p.calls
           /\ \A i \in 1..Len(outcome.contents) :
                 outcome.contents[i] # <<"<unknown_future_type>">>
           /\ (~AnyNodeLacksType(pruned) /\ NoOtherDefect(pruned)) => outcome.exc = NoExc

\* C2 witness: parse returned on a document in which an unknown-type node with
\* children of its own stands next to a rendered sibling.
C2_Witness ==
    /\ Returned /\ HasDocAndContent
    /\ Len(TopNodes) = 2
    /\ \E i \in 1..2 :
          /\ TopNodes[i].type = "unknown_future_type" /\ Children(TopNodes[i]) # << >>
          /\ TopNodes[3 - i].type = "text"
    /\ Len(outcome.contents) = 11

\* A fragment is a paragraph open tag (of any alignment).
IsParagraphOpen(frag) == frag # << >> /\ frag[1] = "<p style=\"text-align: "

\* Every paragraph node of the tree has a list_item, check_list_item,
\* table_cell or call_out_box among its ancestors (covered: one is above).
RECURSIVE EveryParagraphCovered(_, _)
EveryParagraphCovered(nodes, covered) ==
    \A i \in 1..Len(nodes) :
        /\ ("type" \in nodes[i].keys /\ nodes[i].type = "paragraph") => covered
        /\ EveryParagraphCovered(Children(nodes[i]),
               covered \/ ("type" \in nodes[i].keys
                           /\ nodes[i].type \in SuppressingTypes \cup {"check_list_item"}))

\* C3 (as claimed): a paragraph with a list_item, check_list_item, table_cell
\* or call_out_box among its ancestors at any depth gets no paragraph tag, so
\* a document all of whose paragraphs have such an ancestor is rendered
\* without any paragraph open tag.
C3_SuppressedAtAnyDepth ==
    (Returned /\ HasDocAndContent /\ EveryParagraphCovered(TopNodes, FALSE))
        => \A i \in 1..Len(outcome.contents) : ~IsParagraphOpen(outcome.contents[i])

\* C4 (as claimed): when the image resolver raises on an image node, parse
\* still returns an HTML string.
C4_ResolverFailureIsolated ==
    (WasCalled /\ \E i \in 1..Len(outcome.calls) : ResolverRaises(outcome.calls[i].attrs))
        => (outcome.exc = NoExc /\ outcome.result # None)

\* The structural errors: unparseable payload, missing 'doc', missing
\* 'doc.content', a node without 'type'.
StructuralErrors ==
    {"JSONDecodeError", "ValueError: no doc field", "ValueError: no content field",
     "ValueError: no type field"}

\* C5 (as claimed): parse raises nothing but the structural errors. A failure
\* of the image resolver (the subject of C4) is left aside here.
C5_OnlyStructuralErrors ==
    WasCalled => outcome.exc \in StructuralErrors \cup {NoExc, "ImageResolutionFailure"}

\* The errors of the document-level checks of lines 37-49.
DocumentErrors ==
    {"JSONDecodeError", "TypeError", "ValueError: no doc field",
     "ValueError: no content field"}

\* C6: after a call on a payload that is not JSON, or has no 'doc', or whose
\* 'doc' has no 'content', parse has raised, the fragment list was never
\* created and the image resolver was never called; after a call on a payload
\* with 'doc' and 'doc.content', none of the document-level errors was raised,
\* the fragment list starts with the skeleton, and a paragraph that is the
\* first node of doc.content got its open tag (the flag was False at the root).
C6_ValidationBeforeRendering ==
    WasCalled =>
        /\ (\/ ~boxnote_content.parseable
            \/ "doc" \notin boxnote_content.root_keys
            \/ "content" \notin boxnote_content.doc_keys)
              => /\ outcome.exc \in DocumentErrors
                 /\ outcome.result = None
                 /\ outcome.contents = << >>
                 /\ outcome.calls = << >>
        /\ HasDocAndContent
              => /\ outcome.exc \notin DocumentErrors
                 /\ Len(outcome.contents) >= 8
                 /\ SubSeq(outcome.contents, 1, 8) = Skeleton(outcome.title)
                 /\ (TopNodes # << >> /\ TopNodes[1].keys = {"type"}
                     /\ TopNodes[1].type = "paragraph")
                       => /\ Len(outcome.contents) >= 9
                          /\ outcome.contents[9] = ParagraphOpen(<<"left">>)

\* C6 witness: a call on {"doc": {}} raised the missing-content error.
C6_Witness ==
    /\ WasCalled
    /\ boxnote_content.parseable /\ "doc" \in boxnote_content.root_keys
    /\ boxnote_content.doc_kind = "dict" /\ "content" \notin boxnote_content.doc_keys
    /\ outcome.exc = "ValueError: no content field"

\* The string holds a paragraph open tag directly followed by its close tag.
HasEmptyParagraph(s) ==
    \E i \in 1..Len(s) :
        /\ s[i] = "<p style=\"text-align: "
        /\ \/ i + 2 <= Len(s) /\ s[i + 1] = "\">" /\ s[i + 2] = "</p>"
           \/ i + 3 <= Len(s) /\ s[i + 2] = "\">" /\ s[i + 3] = "</p>"

\* C7 (as claimed): the string parse returns holds no paragraph without
\* content, whatever its alignment and wherever it sits in the tree.
C7_NoEmptyParagraph ==
    (Returned /\ HasDocAndContent) => ~HasEmptyParagraph(outcome.result)

\* The open and the close tags of the types tagged by their name alone.
NamedOpenTags == [t \in SuppressingTypes \cup PassthroughTypes |-> <<"<" \o t \o ">">>]
NamedCloseTags ==
    [t \in SuppressingTypes \cup PassthroughTypes \cup {"check_list_item"} |->
        <<"</" \o t \o ">">>]

\* The type whose open tag (close tag) the fragment is, "" if it is none.
OpenTypeOf(frag) ==
    IF frag = << >> THEN ""
    ELSE IF frag[1] = "<p style=\"text-align: " THEN "paragraph"
    ELSE IF frag[1] = "<li class=\"check-list-item " THEN "check_list_item"
    ELSE IF \E t \in DOMAIN NamedOpenTags : NamedOpenTags[t] = frag
         THEN CHOOSE t \in DOMAIN NamedOpenTags : NamedOpenTags[t] = frag
    ELSE ""

CloseTypeOf(frag) ==
    IF frag = <<"</p>">> THEN "paragraph"
    ELSE IF \E t \in DOMAIN NamedCloseTags : NamedCloseTags[t] = frag
         THEN CHOOSE t \in DOMAIN NamedCloseTags : NamedCloseTags[t] = frag
    ELSE ""

\* frags[i..] closes the open tags of `stack` (innermost last) in order, and
\* opens nothing it does not close.
RECURSIVE Balanced(_, _, _)
Balanced(frags, i, stack) ==
    IF i > Len(frags) THEN stack = << >>
    ELSE IF OpenTypeOf(frags[i]) # "" THEN Balanced(frags, i + 1, Append(stack, OpenTypeOf(frags[i])))
    ELSE IF CloseTypeOf(frags[i]) # ""
         THEN /\ stack # << >>
              /\ stack[Len(stack)] = CloseTypeOf(frags[i])
              /\ Balanced(frags, i + 1, SubSeq(stack, 1, Len(stack) - 1))
    ELSE Balanced(frags, i + 1, stack)

\* C8: when parse returns, the fragments it appended after the skeleton are
\* balanced and properly nested: every open tag is closed by the close tag of
\* the same node type after the fragments of its subtree (so that every type
\* has as many open as close fragments).
C8_BalancedFragments ==
    (Returned /\ HasDocAndContent) => Balanced(Body(outcome.contents), 1, << >>)

\* C8 witness: parse returned on list_item > strong > text, three nested levels.
C8_Witness ==
    /\ Returned /\ HasDocAndContent
    /\ Len(TopNodes) = 1 /\ TopNodes[1].type = "list_item"
    /\ Len(Children(TopNodes[1])) = 1 /\ Children(TopNodes[1])[1].type = "strong"
    /\ Len(Children(Children(TopNodes[1])[1])) = 1
    /\ Children(Children(TopNodes[1])[1])[1].type = "text"
    /\ Len(Body(outcome.contents)) = 7

\* The fragments of a node sequence in document order, each node giving its
\* open tag, the fragments of its children in the order of its content, and
\* its close tag; flag is the suppress flag the sequence is rendered under.
RECURSIVE InOrder(_, _, _, _)
InOrderNode(node, flag, title, g) ==
    IF node.keys = {} \/ node.type \notin Catalog THEN << >>
    ELSE IF node.type = "text"
         THEN << << >>, IF "text" \in node.keys THEN node.text ELSE << >>, << >> >>
    ELSE IF node.type = "image"
         THEN << handle_image(GetAttrs(node), title, Workdir, g.token, g.user) >>
    ELSE IF node.type = "paragraph"
         THEN IF flag THEN InOrder(Children(node), 1, FALSE, <<title, g>>)
              ELSE << ParagraphOpen(ScanMarks(GetMarks(node), 1, <<"left">>).alignment) >>
                   \o InOrder(Children(node), 1, FALSE, <<title, g>>) \o << <<"</p>">> >>
    ELSE IF node.type = "check_list_item"
         THEN << get_tag_open("check_list_item", CheckListArgs(node.attrs)) >>
              \o InOrder(Children(node), 1, TRUE, <<title, g>>)
              \o << get_tag_close("check_list_item") >>
    ELSE << get_tag_open(node.type, GetAttrs(node)) >>
         \o InOrder(Children(node), 1, node.type \in SuppressingTypes, <<title, g>>)
         \o << get_tag_close(node.type) >>

InOrder(nodes, i, flag, tg) ==
    IF i > Len(nodes) THEN << >>
    ELSE InOrderNode(nodes[i], flag, tg[1], tg[2]) \o InOrder(nodes, i + 1, flag, tg)

\* C9: when parse returns, the fragments appended to the shared list are the
\* fragments of the document in document order: for every container its open
\* tag, then each child's whole subtree in the order of the content sequence,
\* then its close tag.
C9_DocumentOrder ==
    (Returned /\ HasDocAndContent) =>
        Body(outcome.contents)
          = InOrder(TopNodes, 1, FALSE, <<outcome.title, [token |-> token, user |-> user]>>)

\* C9 witness: parse returned on a container with a child followed by a
\* sibling that renders a different fragment.
C9_Witness ==
    /\ Returned /\ HasDocAndContent
    /\ Len(TopNodes) = 2
    /\ TopNodes[1].type = "strong" /\ Len(Children(TopNodes[1])) = 1
    /\ Children(TopNodes[1])[1].type = "text"
    /\ TopNodes[2].type = "image"
    /\ Len(Body(outcome.contents)) = 6

\* The skeleton before the body, as one string.
HtmlHead(title) ==
    <<"<!DOCTYPE html>", "<html>">> \o get_base_style
      \o <<"<head>", "<meta charset=\"UTF-8\">", "<title>">> \o title
      \o <<"</title>", "</head>", "<body>">>

HtmlTail == <<"</body>", "</html>">>

\* The body fragments that are strings, as one string.
BodyString == Join(SelectSeq(Body(outcome.contents), LAMBDA x : x # None), 1)

\* C10 (as claimed): the string parse returns is exactly the skeleton head,
\* the rendered body fragments, and '</body></html>'.
C10_SkeletonAroundFragments ==
    (Returned /\ HasDocAndContent) =>
        outcome.result = HtmlHead(outcome.title) \o BodyString \o HtmlTail

\* C10 (amended): the string parse returns is exactly the skeleton head, the
\* rendered body fragments without the empty left-aligned paragraphs that the
\* cleanup pass removes, and '</body></html>', which nothing follows.
C10_SkeletonAroundCleanedBody ==
    (Returned /\ HasDocAndContent) =>
        outcome.result
          = HtmlHead(outcome.title) \o StrRemove(BodyString, EmptyParagraph, 1) \o HtmlTail

\* C10 witness: parse returned on an empty paragraph followed by a text node;
\* the cleanup pass removed the paragraph and the text is the whole body.
C10_Witness ==
    /\ Returned /\ HasDocAndContent
    /\ Len(TopNodes) = 2
    /\ TopNodes[1].keys = {"type"} /\ TopNodes[1].type = "paragraph"
    /\ TopNodes[2].type = "text"
    /\ Len(Body(outcome.contents)) = 5
    /\ outcome.result = HtmlHead(outcome.title) \o <<"Hello">> \o HtmlTail

\* ---- C11
\* The one paragraph of a document of SpecMarks, and whether it is the
\* direct child of a list item.
TheParagraph ==
    IF TopNodes[1].type = "paragraph" THEN TopNodes[1] ELSE Children(TopNodes[1])[1]
ParagraphSuppressed == TopNodes[1].type = "list_item"

\* The alignment the marks ask for: 'left' without an alignment mark, else
\* what the alignment mark with the largest index carries.
LastAlignment(marks) ==
    LET at == {i \in 1..Len(marks) : marks[i].type = "alignment"}
        last == CHOOSE i \in at : \A j \in at : j <= i
    IN IF at = {} THEN <<"left">>
       ELSE IF marks[last].has_attrs THEN marks[last].alignment ELSE << >>

\* C11: the open tag of a paragraph that is not suppressed carries 'left'
\* when the paragraph has no alignment mark and otherwise the alignment of
\* its last alignment mark; marks of other types change nothing; a
\* suppressed paragraph has no open tag.
C11_LastAlignmentMarkWins ==
    Returned =>
        SelectSeq(Body(outcome.contents), IsParagraphOpen)
            = IF ParagraphSuppressed THEN << >>
              ELSE <<ParagraphOpen(LastAlignment(TheParagraph.marks))>>

\* A paragraph marked center, then right, was rendered with 'right'.
C11_Witness ==
    /\ Returned
    /\ ~ParagraphSuppressed
    /\ Len(TheParagraph.marks) = 2
    /\ TheParagraph.marks[1] = MkMark("alignment", <<"center">>)
    /\ TheParagraph.marks[2] = MkMark("alignment", <<"right">>)
    /\ \E i \in DOMAIN outcome.contents : outcome.contents[i] = ParagraphOpen(<<"right">>)

\* ---- C12
\* C12: the token and the user id handed to the image resolver during a parse
\* call are exactly the ones given to that call; a call made without them
\* hands over none, whatever the calls before it were given.
C12_AuthContextPerCall ==
    [][\A access_token \in CallTokens, user_id \in CallUsers :
          ParseCall(access_token, user_id) =>
              \A i \in DOMAIN outcome'.calls :
                  /\ outcome'.calls[i].token = access_token
                  /\ outcome'.calls[i].user = user_id]_vars

\* ---- C13
IsImage(node) == "type" \in node.keys /\ node.type = "image"

\* The types whose branch renders the children (lines 87, 103, 108, 114).
RenderingTypes ==
    {"paragraph", "check_list_item"} \cup SuppressingTypes \cup PassthroughTypes

\* The attrs of every image node of the tree, in document order.
RECURSIVE AllImages(_, _)
AllImages(nodes, i) ==
    IF i > Len(nodes) THEN << >>
    ELSE (IF IsImage(nodes[i]) THEN <<GetAttrs(nodes[i])>> ELSE << >>)
           \o AllImages(Children(nodes[i]), 1) \o AllImages(nodes, i + 1)

\* The attrs of the image nodes that lie below rendering nodes only, in
\* document order.
RECURSIVE ReachedImages(_, _)
ReachedImages(nodes, i) ==
    IF i > Len(nodes) THEN << >>
    ELSE (IF IsImage(nodes[i]) THEN <<GetAttrs(nodes[i])>>
          ELSE IF "type" \in nodes[i].keys /\ nodes[i].type \in RenderingTypes
               THEN ReachedImages(Children(nodes[i]), 1)
               ELSE << >>)
           \o ReachedImages(nodes, i + 1)

\* The image references the resolver was called with, in call order.
CallAttrs == [i \in DOMAIN outcome.calls |-> outcome.calls[i].attrs]

IsImageFragment(frag) == frag # << >> /\ frag # None /\ frag[1] = "<img src=\""

\* C13 as stated: a parse call that returns has called the resolver exactly
\* once for every image node of the document, in document order.
C13_EveryImageResolvedOnce ==
    Returned => CallAttrs = AllImages(TopNodes, 1)

\* C13: the resolver calls of a parse call are, in order, the image nodes
\* the traversal reaches (those below rendering nodes only): all of them
\* when the call returns, the first of them when it raises; every call is
\* made with the title of the call, and what the resolver returns is in
\* `contents` once per call, in call order.
C13_ReachedImagesResolvedOnce ==
    (WasCalled /\ HasDocAndContent) =>
        LET reached == ReachedImages(TopNodes, 1) IN
        /\ Len(CallAttrs) <= Len(reached)
        /\ CallAttrs = SubSeq(reached, 1, Len(CallAttrs))
        /\ \A i \in DOMAIN outcome.calls : outcome.calls[i].title = outcome.title
        /\ Returned =>
              /\ CallAttrs = reached
              /\ SelectSeq(Body(outcome.contents), IsImageFragment)
                    = [i \in DOMAIN reached |->
                          handle_image(reached[i], outcome.title, Workdir, token, user)]

\* Two images were resolved in document order, and the image below the
\* first of them was not.
C13_Witness ==
    /\ Returned
    /\ Len(TopNodes) = 2
    /\ IsImage(TopNodes[1]) /\ IsImage(TopNodes[2])
    /\ Len(Children(TopNodes[1])) = 1 /\ IsImage(Children(TopNodes[1])[1])
    /\ Len(outcome.calls) = 2
    /\ Len(SelectSeq(Body(outcome.contents), IsImageFragment)) = 2

\* ---- C14
\* The smallest element of a non-empty set of positions.
Least(S) == CHOOSE p \in S : \A q \in S : p <= q

\* What the claim asks of the text from position lo on, piece by piece up to
\* each '}': the first '${' of the piece that has a key before the '}' opens
\* a placeholder; it is replaced by str() of the first attribute whose name
\* is the key in lower case, and kept when there is none; everything else
\* is kept, and what was inserted is not looked at again.
RECURSIVE ExpectedHtml(_, _, _)
ExpectedHtml(s, items, lo) ==
    LET closes == {k \in lo..Len(s) : s[k] = "}"} IN
    IF closes = {} THEN SubSeq(s, lo, Len(s))
    ELSE LET close == Least(closes)
             starts == {p \in lo..(close - 3) : s[p] = "$" /\ s[p + 1] = "{"}
         IN (IF starts = {} THEN SubSeq(s, lo, close)
             ELSE LET p == Least(starts)
                      key == LowerString(SubSeq(s, p + 2, close - 1), 1)
                      named == {n \in 1..Len(items) : Lower(items[n].name) = key}
                  IN SubSeq(s, lo, p - 1)
                       \o (IF named = {} THEN SubSeq(s, p, close)
                           ELSE Str(items[Least(named)].value)))
              \o ExpectedHtml(s, items, close + 1)

\* C14: replace_email_template_placeholders replaces every ${KEY} (found
\* left to right, KEY being what stands before the next '}') whose KEY is,
\* ignoring case, the name of an attribute of the contact by str() of that
\* attribute, keeps every other ${KEY} and all text outside placeholders,
\* and does not rescan what it inserted.
C14_PlaceholdersReplaced ==
    email_html # None => email_html = ExpectedHtml(html_text, contact, 1)

\* '${Name}${nope}${EMAIL}' for a contact whose Name is the text '${EMAIL}'
\* became '${EMAIL}${nope}a@b.c': the inserted text was not replaced again.
C14_Witness ==
    /\ html_text = <<"$", "{", "Name", "}", "$", "{", "nope", "}", "$", "{", "EMAIL", "}">>
    /\ Len(contact) = 4
    /\ contact[4] = Attr("Name", StrValue(<<"$", "{", "EMAIL", "}">>))
    /\ email_html = <<"$", "{", "EMAIL", "}", "$", "{", "nope", "}", "a@b.c">>

\* ---- C15
\* The four types that render their children with the suppress flag true.
FlagSettingTypes == {"check_list_item"} \cup SuppressingTypes

\* How many nodes of kind `what` the traversal reaches in nodes[i..]:
\* "tagged" counts the paragraphs that are no direct child of one of the
\* four flag-setting types, "text" the text nodes; direct tells whether the
\* parent of the nodes is of one of these types.
RECURSIVE CountReached(_, _, _, _)
CountReached(what, nodes, i, direct) ==
    IF i > Len(nodes) THEN 0
    ELSE LET node == nodes[i]
             here ==
               IF "type" \notin node.keys THEN 0
               ELSE IF node.type = "paragraph"
                    THEN (IF what = "tagged" /\ ~direct THEN 1 ELSE 0)
                           + CountReached(what, Children(node), 1, FALSE)
               ELSE IF node.type = "text" THEN (IF what = "text" THEN 1 ELSE 0)
               ELSE IF node.type \in RenderingTypes
                    THEN CountReached(what, Children(node), 1,
                                      node.type \in FlagSettingTypes)
               ELSE 0
         IN here + CountReached(what, nodes, i + 1, direct)

IsParagraphClose(frag) == frag = <<"</p>">>
IsTextFragment(frag) == frag = <<"Hello">>

\* C15: a paragraph that is a direct child of a list_item, check_list_item,
\* table_cell or call_out_box emits no paragraph open or close tag, whatever
\* flag that container received, and its children are rendered: the tags in
\* `contents` are those of the other paragraphs, the texts those of every
\* text node reached.
C15_DirectChildParagraphSuppressed ==
    Returned =>
        LET body == Body(outcome.contents)
            tagged == CountReached("tagged", TopNodes, 1, FALSE)
        IN /\ Len(SelectSeq(body, IsParagraphOpen)) = tagged
           /\ Len(SelectSeq(body, IsParagraphClose)) = tagged
           /\ Len(SelectSeq(body, IsTextFragment)) = CountReached("text", TopNodes, 1, FALSE)

\* A list item holds a paragraph with a text: no paragraph tag was emitted.
C15_Witness ==
    /\ Returned
    /\ Len(TopNodes) = 1 /\ TopNodes[1].type = "list_item"
    /\ Len(Children(TopNodes[1])) = 1
    /\ Children(TopNodes[1])[1].type = "paragraph"
    /\ Len(Children(Children(TopNodes[1])[1])) = 1
    /\ Children(Children(TopNodes[1])[1])[1].type = "text"
    /\ Body(outcome.contents)
          = << <<"<list_item>">>, << >>, <<"Hello">>, << >>, <<"</list_item>">> >>

\* ---- C16
\* The lexeme sequence pat occurs in the string s.
Occurs(pat, s) ==
    \E i \in 1..(Len(s) - Len(pat) + 1) : SubSeq(s, i, i + Len(pat) - 1) = pat

\* C16: the string parse returns holds no '<p style="text-align: left"></p>',
\* not even one that comes into being when an inner one is removed.
C16_NoLeftArtifactRemains ==
    Returned => ~Occurs(EmptyParagraph, outcome.result)

\* ---- C17
\* The open tag of a check list item as the claim describes it.
CheckedOpenTag == <<"<li class=\"check-list-item ", "checked", "\">[", "X", "]">>
UncheckedOpenTag == <<"<li class=\"check-list-item ", "\">[", "  ", "]">>

ContextOfCall == <<outcome.title, [token |-> token, user |-> user]>>

\* C17: a check_list_item is rendered as its open tag, with the 'checked'
\* token and the marker 'X' when attrs.checked is true and with an empty
\* token and two spaces when it is false, then its children under the
\* suppress flag true, then its close tag.
C17_CheckListItemRendering ==
    (Returned /\ Len(TopNodes) = 1 /\ TopNodes[1].type = "check_list_item") =>
        LET body == Body(outcome.contents) IN
        /\ Len(body) >= 2
        /\ body[1] = IF TopNodes[1].attrs.checked THEN CheckedOpenTag ELSE UncheckedOpenTag
        /\ body[Len(body)] = get_tag_close("check_list_item")
        /\ SubSeq(body, 2, Len(body) - 1)
              = InOrder(Children(TopNodes[1]), 1, TRUE, ContextOfCall)

\* An unchecked item holding a paragraph with a text: two spaces, no
\* paragraph tag.
C17_Witness ==
    /\ Returned
    /\ Len(TopNodes) = 1 /\ TopNodes[1].type = "check_list_item"
    /\ ~TopNodes[1].attrs.checked
    /\ Len(Children(TopNodes[1])) = 1 /\ Children(TopNodes[1])[1].type = "paragraph"
    /\ Len(Children(Children(TopNodes[1])[1])) = 1
    /\ Body(outcome.contents)
          = << UncheckedOpenTag, << >>, <<"Hello">>, << >>, <<"</check_list_item>">> >>

\* ---- C18
\* The same nodes with every 'content' written as a list, and left out where
\* there is no child.
RECURSIVE AsLists(_, _)
AsLists(nodes, i) ==
    IF i > Len(nodes) THEN << >>
    ELSE LET node == nodes[i]
             kids == AsLists(Children(node), 1)
         IN <<MkNode(IF kids = << >> THEN node.keys \ {"content"} ELSE node.keys,
                     node.type, node.text, node.marks, node.attrs,
                     IF kids = << >> THEN JNull ELSE JList(kids))>>
              \o AsLists(nodes, i + 1)

\* C18: whether a 'content' is written as one node object or as the list of
\* that object, and whether no content is written as absent, null or empty,
\* makes no difference to the fragments: they are those of the document with
\* lists throughout, each node giving its open tag, its children, its close tag.
C18_ContentFormsRenderAlike ==
    Returned =>
        LET aslists == parse(Document(AsLists(TopNodes, 1)), outcome.title, Workdir,
                             [token |-> token, user |-> user])
        IN /\ aslists.exc = NoExc
           /\ outcome.contents = aslists.contents
           /\ Body(outcome.contents) = InOrder(AsLists(TopNodes, 1), 1, FALSE, ContextOfCall)

\* The document's content is one node object, a checked item whose content
\* is a paragraph object with null content: open and close tag of the item.
C18_Witness ==
    /\ Returned
    /\ boxnote_content.content.kind = "dict"
    /\ TopNodes[1].type = "check_list_item"
    /\ TopNodes[1].content.kind = "dict"
    /\ Children(TopNodes[1])[1].type = "paragraph"
    /\ "content" \in Children(TopNodes[1])[1].keys
    /\ Children(TopNodes[1])[1].content.kind = "null"
    /\ Body(outcome.contents) = << CheckedOpenTag, <<"</check_list_item>">> >>

\* ---- C19
\* An invocation has ended; the request carried a non-empty challenge header.
Handled == response # NoResponse
Challenged == event.headers_kind = "dict" /\ Truthy(event.challenge)

\* The events of the request: the list under 'events' of a JSON object body.
RequestEvents ==
    IF event.body_kind = "dict" /\ event.has_events /\ event.events_kind = "list"
    THEN event.events ELSE << >>

CreatedRow(e) == e.is_dict /\ e.objectType = "row" /\ e.eventType = "created"
EmailStatusUpdated(e) ==
    /\ e.is_dict /\ e.eventType = "updated"
    /\ e.columnId = [kind |-> "int", digits |-> "3592840163315588"]

\* The handler raises on nothing in the request: the headers are not null,
\* a JSON body is an object, the events are objects.
NothingRaises ==
    /\ event.headers_kind # "null"
    /\ event.body_kind # "other"
    /\ \A i \in DOMAIN RequestEvents : RequestEvents[i].is_dict

\* C19 as stated, for the requests the handler raises on nothing of: main()
\* has run if and only if the events hold a created row or an update of the
\* email_status column, at most once, and not at all when there are no
\* events, the response then being 400.
C19_MainIffQualifyingEvent ==
    (Handled /\ NothingRaises) =>
        /\ main_calls <= 1
        /\ main_calls = 1 <=>
              \E i \in DOMAIN RequestEvents :
                  CreatedRow(RequestEvents[i]) \/ EmailStatusUpdated(RequestEvents[i])
        /\ RequestEvents = << >> => (main_calls = 0 /\ response.statusCode = 400)

\* C19: main() has run at most once; it has run if and only if the request
\* has no challenge header, its headers are not null, and its events hold a
\* created row or an update of the email_status column with nothing but
\* objects before it; without events it has not run, and the response is 400
\* when the request got as far as the events (body absent or an object).
C19_MainIffQualifyingEventReached ==
    Handled =>
        /\ main_calls <= 1
        /\ main_calls = 1 <=>
              /\ ~Challenged
              /\ event.headers_kind # "null"
              /\ \E i \in DOMAIN RequestEvents :
                    /\ CreatedRow(RequestEvents[i]) \/ EmailStatusUpdated(RequestEvents[i])
                    /\ \A j \in 1..(i - 1) : RequestEvents[j].is_dict
        /\ RequestEvents = << >> =>
              /\ main_calls = 0
              /\ (~Challenged /\ event.headers_kind # "null" /\ event.body_kind # "other")
                    => response.statusCode = 400

\* Two events qualified, a created row and an update of the email_status
\* column of a cell: main() ran once and the response is 200.
C19_Witness ==
    /\ Handled
    /\ ~Challenged
    /\ Len(RequestEvents) = 2
    /\ CreatedRow(RequestEvents[1]) /\ EmailStatusUpdated(RequestEvents[2])
    /\ main_calls = 1
    /\ response.statusCode = 200

\* ---- C20
\* C20 as stated: a request with a non-empty challenge header is answered
\* 200 with the challenge in 'Smartsheet-Hook-Response' and main() is not
\* run, whatever the body is.
C20_ChallengeAlwaysAnswered ==
    (Handled /\ Challenged) =>
        /\ response.statusCode = 200
        /\ response.hook_response = event.challenge
        /\ main_calls = 0

\* C20: a request with a non-empty challenge header never runs main(); it
\* is answered 200 with the challenge in 'Smartsheet-Hook-Response' when the
\* body is absent or JSON text, with or without events, and 400 without
\* that header when the body is null or is not JSON.
C20_ChallengeAnsweredAfterBodyParse ==
    (Handled /\ Challenged) =>
        /\ main_calls = 0
        /\ response.exc = NoExc
        /\ IF event.body_kind \in {"null", "invalid"}
           THEN response.statusCode = 400 /\ response.hook_response = None
           ELSE response.statusCode = 200 /\ response.hook_response = event.challenge

\* A challenge came with a created row among the events: it was answered,
\* and main() did not run.
C20_Witness ==
    /\ Handled /\ Challenged
    /\ Len(RequestEvents) = 1 /\ CreatedRow(RequestEvents[1])
    /\ response.statusCode = 200
    /\ response.hook_response = <<"abc123">>
    /\ main_calls = 0

\* The contact of row i among the contacts the run retrieved had the status
\* 'awaiting email', in any case of the letters.
WasAwaitingEmail(i) ==
    \E k \in 1..Len(retrieved.contacts) :
        /\ RowIdOf(retrieved.contacts[k]) = IntValue(i)
        /\ AwaitingEmail(retrieved.contacts[k])

\* The run got as far as the loop over the contacts.
SendLoopRan == run.exit \in {"update", "delete", "returned"}

InList(x, list) == \E k \in 1..Len(list) : list[k] = x

\* C21: in a run of the separations main(), a row is set to 'email sent'
\* only if its contact was retrieved with the status 'awaiting email'
\* (ignoring case) and send_email completed for it in this run; a contact
\* whose send_email raised is in the failed list and not in the list passed
\* to update_separation_contacts_to_email_sent; and every selected contact
\* is tried, whatever happened to the ones before it.
C21_EmailSentOnlyAfterSend ==
    run.n > 0 =>
        /\ \A i \in run.set_sent : WasAwaitingEmail(i) /\ IntValue(i) \in run.send_ok
        /\ SendLoopRan =>
              \A k \in 1..Len(run.filtered) :
                 LET id == run.filtered[k] IN
                 /\ id \notin run.send_ok =>
                       InList(id, run.failed) /\ ~InList(id, run.passed)
                 /\ id \in run.send_ok <=> InList(id, run.delivered)
        /\ Len(run.filtered) = Len(run.success) + Len(run.failed) \/ ~SendLoopRan

\* A run in which the first contact's send_email raised and the second one's
\* completed: only the second row, whose status was written 'Awaiting Email',
\* was set to 'email sent'.
C21_Witness ==
    /\ run.failed = <<IntValue(1)>>
    /\ run.success = <<IntValue(2)>>
    /\ run.passed = <<IntValue(2)>>
    /\ run.set_sent = {2}
    /\ \E k \in 1..Len(retrieved.contacts) :
          /\ RowIdOf(retrieved.contacts[k]) = IntValue(2)
          /\ DictGet(retrieved.contacts[k], "email_status") = StrValue(<<"Awaiting Email">>)
    /\ EmailSent(smartsheet_json, 2) /\ ~EmailSent(smartsheet_json, 1)

\* C22: over the runs of the separations main(), no contact is e-mailed more
\* than once, and a contact that send_email has completed for has the status
\* 'email sent' when the run that e-mailed it is over, however that run
\* ended.
C22_EmailedAtMostOnce ==
    \A i \in DOMAIN mailbox :
        /\ mailbox[i] <= 1
        /\ mailbox[i] >= 1 => EmailSent(smartsheet_json, i)

\* The row has no value for one of the three required columns.
LacksCrucialData(row) ==
    \E r \in 1..Len(SMARTSHEET_REQUIRED_COLUMN_TITLES_MAP) :
        ~TruthyValue(CellValue(row.cells, SMARTSHEET_REQUIRED_COLUMN_TITLES_MAP[r].id, 1))

\* The attribute is the value of the cell of its column among the cells.
FromCells(attribute, cells) ==
    \E n \in 1..Len(cells) :
        /\ cells[n].value = attribute.value
        /\ \/ \E t \in 1..Len(SheetColumns) :
                 SheetColumns[t].id = cells[n].columnId
                 /\ SheetColumns[t].title = attribute.name
           \/ \E r \in 1..Len(SMARTSHEET_REQUIRED_COLUMN_TITLES_MAP) :
                 SMARTSHEET_REQUIRED_COLUMN_TITLES_MAP[r].id = cells[n].columnId
                 /\ SMARTSHEET_REQUIRED_COLUMN_TITLES_MAP[r].name = attribute.name

\* C23: retrieve_separating_contacts_from_smartsheet raises 'row missing
\* crucial cell data' whenever a row of the sheet has no value for
\* email_status, email or last_day_date, whatever the rows before it hold,
\* and every attribute of the contact of a row, the row id aside, is the
\* value of a cell of that row.
C23_ContactFromOwnRowOnly ==
    retrieved.op = "retrieve" =>
        /\ (\E i \in 1..Len(smartsheet_json) : LacksCrucialData(smartsheet_json[i]))
              => retrieved.exc = RowMissingData
        /\ \A k \in 1..Len(retrieved.contacts) :
              \A a \in 1..Len(retrieved.contacts[k]) :
                 \/ retrieved.contacts[k][a].name = "smartsheet_row_id"
                 \/ FromCells(retrieved.contacts[k][a], smartsheet_json[k].cells)

\* The run called download_attachments_and_email_template_from_box and
\* get_folder_items returned.
Downloaded == run.listing # << >>

\* C24: every call of download_attachments_and_email_template_from_box,
\* also a later one in the same process, starts with an empty contents list
\* and downloads exactly the entries Box lists in that call, each once.
C24_DownloadsWhatBoxLists ==
    Downloaded => run.started_with = << >> /\ run.downloaded = run.listing

\* The list 'before' is the beginning of the list 'after'.
IsPrefix(before, after) ==
    Len(before) <= Len(after) /\ SubSeq(after, 1, Len(before)) = before

\* A stage does not copy or reset a row that had an error when it began.
FailedRowsSkipped ==
    \A r \in EprRowIds :
        InErrorMap(r, error_map) =>
            /\ r \in epr'.copied <=> r \in epr.copied
            /\ r \in epr'.reset <=> r \in epr.reset

\* No key and no message leaves error_map.
ErrorMapGrows ==
    \A r \in DOMAIN error_map :
        r \in DOMAIN error_map' /\ IsPrefix(error_map[r], error_map'[r])

\* main() is about to run the copy or the reset stage only when some row
\* has no error.
StopsWhenEveryRowFailed ==
    epr.pc \in {"copy", "reset"} => \E r \in EprRowIds : ~InErrorMap(r, error_map)

\* C25: in the EPR pipeline a row with an error in error_map is skipped by
\* every later stage, so it is not copied to the history table and not reset
\* after the error; error_map only grows during a run; and when every
\* filtered row has an error after a stage, the run stops before the next
\* stage.
C25_FailedRowsAreSkipped ==
    /\ [][FailedRowsSkipped /\ ErrorMapGrows]_vars
    /\ [](StopsWhenEveryRowFailed)

\* A run that went through the three stages with two rows: the first got an
\* error in the save stage and was neither copied nor reset, the second was
\* saved, copied and reset.
C25_Witness ==
    /\ epr.pc = "done"
    /\ Len(epr.filtered_rows) = 2
    /\ error_map[1] = <<"Must have atleast 1 EPR attached">>
    /\ error_map[2] = << >>
    /\ epr.saved = {2} /\ epr.copied = {2} /\ epr.reset = {2}
====
